---- MODULE Spec2Model ----
(***************************************************************************)
(* Model of the permission policy engine of                                *)
(* backend/telegram_ai/ai/claude_code/permissions.py (specification Spec,  *)
(* RuleSpec for the rule lists alone, PublishSpec for apply_preset and     *)
(* import_config statement by statement), of the operation tracker and the *)
(* error recovery of backend/telegram_ai/ai/claude_code/monitoring.py      *)
(* (specifications TrackerSpec and RecoverySpec, ToolStatsSpec for the     *)
(* statistics of one tool, HistorySpec for the report over the history) and*)
(* of the tool manager of backend/telegram_ai/ai/claude_code/tools.py      *)
(* (specification ToolSpec).                                               *)
(*                                                                         *)
(* Strings that the code matches against patterns are modelled as          *)
(* sequences of one-character strings, so that PermissionRule.matches is   *)
(* computed the way Python's re module computes it.  Tools are named by    *)
(* their enum value.                                                       *)
(***************************************************************************)
EXTENDS Integers, Sequences, FiniteSets, TLC

(***************************************************************************)
(* types.py: the tool catalog                                              *)
(***************************************************************************)
ClaudeCodeTool ==
    { "Bash", "Edit", "Glob", "Grep", "LS", "MultiEdit", "NotebookEdit",
      "NotebookRead", "Read", "Task", "TodoWrite", "WebFetch", "WebSearch",
      "Write" }

\* tool.value as the character sequence that f"{tool.value}(...)" formats
ToolValue ==
    [ Bash         |-> <<"B","a","s","h">>,
      Edit         |-> <<"E","d","i","t">>,
      Glob         |-> <<"G","l","o","b">>,
      Grep         |-> <<"G","r","e","p">>,
      LS           |-> <<"L","S">>,
      MultiEdit    |-> <<"M","u","l","t","i","E","d","i","t">>,
      NotebookEdit |-> <<"N","o","t","e","b","o","o","k","E","d","i","t">>,
      NotebookRead |-> <<"N","o","t","e","b","o","o","k","R","e","a","d">>,
      Read         |-> <<"R","e","a","d">>,
      Task         |-> <<"T","a","s","k">>,
      TodoWrite    |-> <<"T","o","d","o","W","r","i","t","e">>,
      WebFetch     |-> <<"W","e","b","F","e","t","c","h">>,
      WebSearch    |-> <<"W","e","b","S","e","a","r","c","h">>,
      Write        |-> <<"W","r","i","t","e">> ]

(***************************************************************************)
(* Python's re.match for the regular expressions the rules can hold:       *)
(* literals, "\c" escapes, ".", "^", "$", groups "( )", alternation "|"    *)
(* and the postfix "*".  A regular expression r is matched against s by    *)
(* following the set of positions of s (1..Len(s)+1) a match can have      *)
(* reached; re.match succeeds when some match starting at position 1       *)
(* exists.                                                                 *)
(***************************************************************************)
RECURSIVE CloseParen(_, _, _)
\* index of the ")" that closes the group whose body starts at r[i]
CloseParen(r, i, depth) ==
    IF r[i] = "\\" THEN CloseParen(r, i + 2, depth)
    ELSE IF r[i] = "(" THEN CloseParen(r, i + 1, depth + 1)
    ELSE IF r[i] = ")" THEN (IF depth = 0 THEN i
                             ELSE CloseParen(r, i + 1, depth - 1))
    ELSE CloseParen(r, i + 1, depth)

RECURSIVE AltBar(_, _, _)
\* index of the first "|" of r[i..hi] outside any group, 0 when there is none
AltBar(r, i, hi) ==
    IF i > hi THEN 0
    ELSE IF r[i] = "\\" THEN AltBar(r, i + 2, hi)
    ELSE IF r[i] = "(" THEN AltBar(r, CloseParen(r, i + 1, 0) + 1, hi)
    ELSE IF r[i] = "|" THEN i
    ELSE AltBar(r, i + 1, hi)

RECURSIVE ReAlt(_, _, _, _, _)
RECURSIVE ReCat(_, _, _, _, _)
RECURSIVE ReAtom(_, _, _, _, _)
RECURSIVE ReStar(_, _, _, _, _)

\* positions reachable from P by one of the alternatives of r[lo..hi]
ReAlt(r, lo, hi, s, P) ==
    LET bar == AltBar(r, lo, hi)
    IN  IF bar = 0 THEN ReCat(r, lo, hi, s, P)
        ELSE ReCat(r, lo, bar - 1, s, P) \cup ReAlt(r, bar + 1, hi, s, P)

\* positions reachable from P by the concatenation r[lo..hi]
ReCat(r, lo, hi, s, P) ==
    IF lo > hi \/ P = {} THEN P
    ELSE LET last == IF r[lo] = "(" THEN CloseParen(r, lo + 1, 0)
                     ELSE IF r[lo] = "\\" THEN lo + 1
                     ELSE lo
             starred == last < hi /\ r[last + 1] = "*"
         IN  IF starred
             THEN ReCat(r, last + 2, hi, s, ReStar(r, lo, last, s, P))
             ELSE ReCat(r, last + 1, hi, s, ReAtom(r, lo, last, s, P))

\* positions reachable from P by the single atom r[lo..hi]
ReAtom(r, lo, hi, s, P) ==
    CASE r[lo] = "("  -> ReAlt(r, lo + 1, hi - 1, s, P)
      [] r[lo] = "\\" -> { p + 1 : p \in { q \in P : q <= Len(s) /\ s[q] = r[hi] } }
      [] r[lo] = "."  -> { p + 1 : p \in { q \in P : q <= Len(s) /\ s[q] # "\n" } }
      [] r[lo] = "^"  -> P \cap {1}
      [] r[lo] = "$"  -> { p \in P : \/ p = Len(s) + 1
                                     \/ p = Len(s) /\ s[p] = "\n" }
      [] OTHER        -> { p + 1 : p \in { q \in P : q <= Len(s) /\ s[q] = r[lo] } }

\* positions reachable from P by zero or more repetitions of the atom
ReStar(r, lo, hi, s, P) ==
    LET N == ReAtom(r, lo, hi, s, P) \ P
    IN  IF N = {} THEN P ELSE P \cup ReStar(r, lo, hi, s, N)

\* bool(re.match(r, s))
re_match(r, s) == ReAlt(r, 1, Len(r), s, {1}) # {}

RECURSIVE replace_star(_)
\* pattern.replace("*", ".*")
replace_star(pattern) ==
    IF pattern = <<>> THEN <<>>
    ELSE (IF Head(pattern) = "*" THEN <<".", "*">> ELSE <<Head(pattern)>>)
         \o replace_star(Tail(pattern))

\* f"{tool.value}({command})" if command else tool.value
full_command(tool, command) ==
    IF command # <<>> THEN ToolValue[tool] \o <<"(">> \o command \o <<")">>
    ELSE ToolValue[tool]

\* PermissionRule.matches; a rule is [pattern, is_regex] (the dataclass's
\* tool and action fields are never set by the code and stay None)
matches(rule, tool, command) ==
    IF rule.is_regex
    THEN re_match(rule.pattern, full_command(tool, command))
    ELSE re_match(<<"^">> \o replace_star(rule.pattern) \o <<"$">>,
                  full_command(tool, command))

(***************************************************************************)
(* PermissionConfig and PermissionManager                                  *)
(***************************************************************************)
\* PermissionRule(pattern=pattern, is_regex=is_regex)
PermissionRule(pattern, is_regex) == [pattern |-> pattern, is_regex |-> is_regex]

\* PermissionConfig(): empty sets and lists
PermissionConfig ==
    [allowed_tools |-> {}, denied_tools |-> {}, allow_rules |-> <<>>,
     deny_rules |-> <<>>]

\* PermissionRule(pattern=rule), as from_dict builds the rules
PlainRule(pattern) == PermissionRule(pattern, FALSE)

\* [PermissionRule(pattern=rule) for rule in patterns]
PlainRules(patterns) == [i \in 1..Len(patterns) |-> PlainRule(patterns[i])]

\* [rule.pattern for rule in rules]
RulePatterns(rules) == [i \in 1..Len(rules) |-> rules[i].pattern]

\* [tool.value for tool in tools]: the members of a set in some order
RECURSIVE ToolValues(_)
ToolValues(tools) ==
    IF tools = {} THEN <<>>
    ELSE LET tool == CHOOSE t \in tools : TRUE
         IN  <<tool>> \o ToolValues(tools \ {tool})

\* to_dict writing the allow rules under both rule keys
to_dict_copies_allow_rules(cfg) ==
    [allowed_tools |-> ToolValues(cfg.allowed_tools),
     denied_tools  |-> ToolValues(cfg.denied_tools),
     allow_rules   |-> RulePatterns(cfg.allow_rules),
     deny_rules    |-> RulePatterns(cfg.allow_rules)]

\* PermissionConfig.to_dict: tool names and rule patterns as lists; is_regex
\* is not written
to_dict(cfg) ==
    [allowed_tools |-> ToolValues(cfg.allowed_tools),
     denied_tools  |-> ToolValues(cfg.denied_tools),
     allow_rules   |-> RulePatterns(cfg.allow_rules),
     deny_rules    |-> RulePatterns(cfg.deny_rules)]

\* the names in the dict's tool lists for which ClaudeCodeTool(name) raises
\* ValueError
UnknownNames(data) ==
    { name \in UNION { { data[key][i] : i \in 1..Len(data[key]) } :
                          key \in DOMAIN data \cap
                                    {"allowed_tools", "denied_tools"} } :
        name \notin ClaudeCodeTool }

\* {ClaudeCodeTool(tool) for tool in names}, for names of the catalog
ToolSet(names) == { names[i] : i \in 1..Len(names) }

\* the dict with its lists of tool names read as from_dict reads them
WithToolSets(data) ==
    [key \in DOMAIN data |->
        IF key \in {"allowed_tools", "denied_tools"}
        THEN ToolSet(data[key]) ELSE data[key]]

\* from_dict reading the allowed tools under a key the dict does not have
from_dict_skips_allowed_tools(data) ==
    [allowed_tools |-> {},
     denied_tools  |-> IF "denied_tools" \in DOMAIN data
                       THEN data.denied_tools ELSE {},
     allow_rules   |-> IF "allow_rules" \in DOMAIN data
                       THEN PlainRules(data.allow_rules) ELSE <<>>,
     deny_rules    |-> IF "deny_rules" \in DOMAIN data
                       THEN PlainRules(data.deny_rules) ELSE <<>>]

\* PermissionConfig.from_dict for a dict whose tool names are in the catalog;
\* a key the dict lacks leaves the field of the fresh config empty
from_dict(data) ==
    [allowed_tools |-> IF "allowed_tools" \in DOMAIN data
                       THEN data.allowed_tools ELSE {},
     denied_tools  |-> IF "denied_tools" \in DOMAIN data
                       THEN data.denied_tools ELSE {},
     allow_rules   |-> IF "allow_rules" \in DOMAIN data
                       THEN PlainRules(data.allow_rules) ELSE <<>>,
     deny_rules    |-> IF "deny_rules" \in DOMAIN data
                       THEN PlainRules(data.deny_rules) ELSE <<>>]

\* _init_default_permissions: the tool sets it adds
safe_tools ==
    { "Read", "Grep", "Glob", "LS", "TodoWrite", "Task", "WebSearch" }

dangerous_tools == { "Bash", "Write", "Edit", "MultiEdit" }

\* _init_default_permissions: the deny rules it appends
default_deny_rules ==
    << PlainRule(<<"B","a","s","h","(","r","m","*",")">>),
       PlainRule(<<"B","a","s","h","(","s","u","d","o","*",")">>),
       PlainRule(<<"B","a","s","h","(","c","h","m","o","d"," ","7","7","7","*",")">>),
       PlainRule(<<"B","a","s","h","(","*"," ","|"," ","s","h",")">>),
       PlainRule(<<"B","a","s","h","(","*"," ","|"," ","b","a","s","h",")">>) >>

\* _init_default_permissions with the dangerous tools added to the allowed
\* set instead of the denied set
init_default_permissions_dangerous_allowed(cfg) ==
    [cfg EXCEPT !.allowed_tools = (@ \cup safe_tools) \cup dangerous_tools,
                !.deny_rules    = @ \o default_deny_rules]

\* PermissionManager.__init__ followed by _init_default_permissions
init_default_permissions(cfg) ==
    [cfg EXCEPT !.allowed_tools = @ \cup safe_tools,
                !.denied_tools  = @ \cup dangerous_tools,
                !.deny_rules    = @ \o default_deny_rules]

\* the presets dict with a development preset that allows Bash outright and
\* holds no allow rules
presets_development_open_shell ==
    [ readonly |->
        [allowed_tools |-> {"Read", "Grep", "Glob", "LS", "WebSearch"},
         denied_tools  |-> {"Write", "Edit", "Bash", "MultiEdit", "WebFetch"},
         deny_rules    |-> << <<"*">> >>],
      content_generation |->
        [allowed_tools |-> {"TodoWrite", "Task", "WebSearch", "Read", "WebFetch"},
         denied_tools  |-> {"Bash", "Write", "Edit", "MultiEdit"},
         deny_rules    |-> << <<"B","a","s","h","(","*",")">>,
                              <<"W","r","i","t","e","(","*",")">>,
                              <<"E","d","i","t","(","*",")">> >>],
      development |->
        [allowed_tools |-> {"Bash", "Read", "Write", "Edit", "MultiEdit", "Grep",
                            "Glob", "LS", "TodoWrite", "Task", "WebSearch",
                            "WebFetch"},
         denied_tools  |-> {},
         allow_rules   |-> << >>,
         deny_rules    |-> << <<"B","a","s","h","(","r","m"," ","-","r","f","*",")">>,
                              <<"B","a","s","h","(","s","u","d","o","*",")">>,
                              <<"B","a","s","h","(","c","h","m","o","d"," ","7","7","7","*",")">>,
                              <<"B","a","s","h","(","c","u","r","l"," ","*"," ","|"," ","s","h",")">> >>] ]

\* the presets dict of apply_preset
presets ==
    [ readonly |->
        [allowed_tools |-> {"Read", "Grep", "Glob", "LS", "WebSearch"},
         denied_tools  |-> {"Write", "Edit", "Bash", "MultiEdit", "WebFetch"},
         deny_rules    |-> << <<"*">> >>],
      content_generation |->
        [allowed_tools |-> {"TodoWrite", "Task", "WebSearch", "Read", "WebFetch"},
         denied_tools  |-> {"Bash", "Write", "Edit", "MultiEdit"},
         deny_rules    |-> << <<"B","a","s","h","(","*",")">>,
                              <<"W","r","i","t","e","(","*",")">>,
                              <<"E","d","i","t","(","*",")">> >>],
      development |->
        [allowed_tools |-> {"Read", "Write", "Edit", "MultiEdit", "Grep", "Glob",
                            "LS", "TodoWrite", "Task", "WebSearch", "WebFetch"},
         denied_tools  |-> {},
         allow_rules   |-> << <<"B","a","s","h","(","n","p","m","*",")">>,
                              <<"B","a","s","h","(","y","a","r","n","*",")">>,
                              <<"B","a","s","h","(","g","i","t","*",")">>,
                              <<"B","a","s","h","(","p","y","t","h","o","n","*",")">>,
                              <<"B","a","s","h","(","n","o","d","e","*",")">> >>,
         deny_rules    |-> << <<"B","a","s","h","(","r","m"," ","-","r","f","*",")">>,
                              <<"B","a","s","h","(","s","u","d","o","*",")">>,
                              <<"B","a","s","h","(","c","h","m","o","d"," ","7","7","7","*",")">>,
                              <<"B","a","s","h","(","c","u","r","l"," ","*"," ","|"," ","s","h",")">> >>] ]

(***************************************************************************)
(* Inputs of the model                                                     *)
(***************************************************************************)
\* the tool add_allowed_tool and add_denied_tool are called with
ToolInputs == { "Bash" }

\* the rule add_allow_rule is called with: the regular expression Bash\(rm
\* (the wildcard rules come from the defaults and the presets)
AllowRuleInputs ==
    { PermissionRule(<<"B","a","s","h","\\","(","r","m">>, TRUE) }

\* the rules add_deny_rule is called with: the wildcard Bash(curl * | sh) and
\* the regular expression Bash\(rm
DenyRuleInputs ==
    { PermissionRule(<<"B","a","s","h","(","c","u","r","l"," ","*"," ","|"," ","s","h",")">>, FALSE),
      PermissionRule(<<"B","a","s","h","\\","(","r","m">>, TRUE) }

\* the pattern remove_allow_rule and remove_deny_rule are called with: Bash\(rm
PatternInputs == { <<"B","a","s","h","\\","(","r","m">> }

\* the names apply_preset is called with; "staging" is no preset
PresetInputs == { "readonly", "content_generation", "development", "staging" }

\* how many rules of one pattern a list may hold: the round trip through
\* export_config and import_config turns a regex rule into a wildcard rule of
\* the same pattern, after which the regex rule can be added again
MaxSamePattern == 1

\* the texts validate_command is called with: Read(), Bash(git status),
\* Bash(rm), a name in the wrong letter case, a name without parentheses, a
\* text ending in a newline, and a text with a newline in its inner text
TextInputs ==
    { <<"R","e","a","d","(",")">>,
      <<"B","a","s","h","(","g","i","t"," ","s","t","a","t","u","s",")">>,
      <<"B","a","s","h","(","r","m",")">>,
      <<"b","a","s","h","(","l","s",")">>,
      <<"B","a","s","h">>,
      <<"R","e","a","d","(",")","\n">>,
      <<"B","a","s","h","(","l","s","\n","-","l","a",")">> }

\* documents for import_config that name a tool outside the catalog after
\* valid names: in allowed_tools, and in denied_tools (wrong letter case)
DocumentInputs ==
    { [allowed_tools |-> <<"Read", "Shell">>],
      [allowed_tools |-> <<"Read">>, denied_tools |-> <<"Bash", "bash">>,
       deny_rules |-> << <<"*">> >>] }

\* the commands check_permission is called with for Bash
CommandInputs ==
    { <<>>,
      <<"g","i","t"," ","s","t","a","t","u","s">>,
      <<"l","s"," ","-","l","a">>,
      <<"r","m"," ","-","r","f"," ","/">>,
      <<"r","m">>,
      <<"s","u","d","o"," ","s","u">>,
      <<"c","h","m","o","d"," ","7","7","7"," ","x">>,
      <<"c","u","r","l"," ","h","t","t","p","s",":","/","/","e","v","i","l",".",
        "c","o","m","/","s","c","r","i","p","t",".","s","h"," ","|"," ","s","h">> }

\* the (tool, command) pairs check_permission is called with: every tool of
\* the catalog with no command, Bash with every command, and the other tools
\* of CommandTools with "git status"
CommandTools == { "Bash", "Read", "Write", "NotebookRead" }

CheckInputs ==
    (ClaudeCodeTool \X { <<>> })
    \cup ({"Bash"} \X CommandInputs)
    \cup (CommandTools \X { <<"g","i","t"," ","s","t","a","t","u","s">> })

(***************************************************************************)
(* check_permission                                                        *)
(***************************************************************************)
\* the reasons check_permission returns (the code formats them as text);
\* a reason carries the tool or the pattern the text cites
NoReason == [kind |-> "None", tool |-> "", pattern |-> <<>>]
ToolDenied(tool) == [kind |-> "ToolDenied", tool |-> tool, pattern |-> <<>>]
MatchedDenyRule(pattern) == [kind |-> "MatchedDenyRule", tool |-> "", pattern |-> pattern]
ToolNotAllowed(tool) == [kind |-> "ToolNotAllowed", tool |-> tool, pattern |-> <<>>]
NoAllowRuleMatched == [kind |-> "NoAllowRuleMatched", tool |-> "", pattern |-> <<>>]

\* the indexes of the rules of a list that match, in list order
MatchingRules(rules, tool, command) ==
    { i \in 1..Len(rules) : matches(rules[i], tool, command) }

\* the first rule the loop "for rule in rules: if rule.matches(...)" stops at
FirstMatching(rules, tool, command) ==
    LET M == MatchingRules(rules, tool, command)
    IN  rules[CHOOSE i \in M : \A j \in M : i <= j]

\* check_permission with the deny rules consulted before the denied tools
check_permission_rules_first(cfg, tool, command) ==
    IF MatchingRules(cfg.deny_rules, tool, command) # {}
    THEN [allowed |-> FALSE,
          reason |-> MatchedDenyRule(FirstMatching(cfg.deny_rules, tool, command).pattern)]
    ELSE IF tool \in cfg.denied_tools
    THEN [allowed |-> FALSE, reason |-> ToolDenied(tool)]
    ELSE IF tool \notin cfg.allowed_tools
    THEN [allowed |-> FALSE, reason |-> ToolNotAllowed(tool)]
    ELSE IF command # <<>> /\ cfg.allow_rules # <<>>
    THEN (IF MatchingRules(cfg.allow_rules, tool, command) # {}
          THEN [allowed |-> TRUE, reason |-> NoReason]
          ELSE [allowed |-> FALSE, reason |-> NoAllowRuleMatched])
    ELSE [allowed |-> TRUE, reason |-> NoReason]

\* check_permission with the allow rules consulted before the deny rules
check_permission_allow_rules_first(cfg, tool, command) ==
    IF tool \in cfg.denied_tools
    THEN [allowed |-> FALSE, reason |-> ToolDenied(tool)]
    ELSE IF /\ tool \in cfg.allowed_tools
            /\ command # <<>>
            /\ MatchingRules(cfg.allow_rules, tool, command) # {}
    THEN [allowed |-> TRUE, reason |-> NoReason]
    ELSE IF MatchingRules(cfg.deny_rules, tool, command) # {}
    THEN [allowed |-> FALSE,
          reason |-> MatchedDenyRule(FirstMatching(cfg.deny_rules, tool, command).pattern)]
    ELSE IF tool \notin cfg.allowed_tools
    THEN [allowed |-> FALSE, reason |-> ToolNotAllowed(tool)]
    ELSE IF command # <<>> /\ cfg.allow_rules # <<>>
    THEN [allowed |-> FALSE, reason |-> NoAllowRuleMatched]
    ELSE [allowed |-> TRUE, reason |-> NoReason]

\* check_permission without the test that the tool is in the allowed set
check_permission_no_allow_list(cfg, tool, command) ==
    IF tool \in cfg.denied_tools
    THEN [allowed |-> FALSE, reason |-> ToolDenied(tool)]
    ELSE IF MatchingRules(cfg.deny_rules, tool, command) # {}
    THEN [allowed |-> FALSE,
          reason |-> MatchedDenyRule(FirstMatching(cfg.deny_rules, tool, command).pattern)]
    ELSE IF command # <<>> /\ cfg.allow_rules # <<>>
    THEN (IF MatchingRules(cfg.allow_rules, tool, command) # {}
          THEN [allowed |-> TRUE, reason |-> NoReason]
          ELSE [allowed |-> FALSE, reason |-> NoAllowRuleMatched])
    ELSE [allowed |-> TRUE, reason |-> NoReason]

\* PermissionManager.check_permission: (allowed, reason)
check_permission(cfg, tool, command) ==
    IF tool \in cfg.denied_tools
    THEN [allowed |-> FALSE, reason |-> ToolDenied(tool)]
    ELSE IF MatchingRules(cfg.deny_rules, tool, command) # {}
    THEN [allowed |-> FALSE,
          reason |-> MatchedDenyRule(FirstMatching(cfg.deny_rules, tool, command).pattern)]
    ELSE IF tool \notin cfg.allowed_tools
    THEN [allowed |-> FALSE, reason |-> ToolNotAllowed(tool)]
    ELSE IF command # <<>> /\ cfg.allow_rules # <<>>
    THEN (IF MatchingRules(cfg.allow_rules, tool, command) # {}
          THEN [allowed |-> TRUE, reason |-> NoReason]
          ELSE [allowed |-> FALSE, reason |-> NoAllowRuleMatched])
    ELSE [allowed |-> TRUE, reason |-> NoReason]

(***************************************************************************)
(* The mutation operations, as functions of the configuration              *)
(***************************************************************************)
\* rule not in rules: dataclass equality, pattern and is_regex both compared
InRules(rule, rules) == \E i \in 1..Len(rules) : rules[i] = rule

\* add_allowed_tool that leaves the denied set as it is
add_allowed_tool_keeps_denied(cfg, tool) ==
    [cfg EXCEPT !.allowed_tools = @ \cup {tool}]

\* add_allowed_tool(tool): allowed_tools.add, denied_tools.discard
add_allowed_tool(cfg, tool) ==
    [cfg EXCEPT !.allowed_tools = @ \cup {tool},
                !.denied_tools  = @ \ {tool}]

\* add_denied_tool(tool): denied_tools.add, allowed_tools.discard
add_denied_tool(cfg, tool) ==
    [cfg EXCEPT !.denied_tools  = @ \cup {tool},
                !.allowed_tools = @ \ {tool}]

add_allow_rule(cfg, pattern, is_regex) ==
    IF InRules(PermissionRule(pattern, is_regex), cfg.allow_rules) THEN cfg
    ELSE [cfg EXCEPT !.allow_rules = Append(@, PermissionRule(pattern, is_regex))]

add_deny_rule(cfg, pattern, is_regex) ==
    IF InRules(PermissionRule(pattern, is_regex), cfg.deny_rules) THEN cfg
    ELSE [cfg EXCEPT !.deny_rules = Append(@, PermissionRule(pattern, is_regex))]

\* [r for r in rules if r.pattern != pattern]
WithoutPattern(rules, pattern) ==
    SelectSeq(rules, LAMBDA r : r.pattern # pattern)

remove_allow_rule(cfg, pattern) ==
    [cfg EXCEPT !.allow_rules = WithoutPattern(@, pattern)]

remove_deny_rule(cfg, pattern) ==
    [cfg EXCEPT !.deny_rules = WithoutPattern(@, pattern)]

\* apply_preset adding the preset's rules to the lists already there
apply_preset_extends_rules(cfg, preset) ==
    [from_dict(presets[preset]) EXCEPT
        !.allow_rules = cfg.allow_rules \o @,
        !.deny_rules = cfg.deny_rules \o @]

\* apply_preset updating the tool sets in place instead of replacing them
apply_preset_keeps_tools(cfg, preset) ==
    [from_dict(presets[preset]) EXCEPT
        !.allowed_tools = cfg.allowed_tools \cup @,
        !.denied_tools = cfg.denied_tools \cup @]

\* apply_preset for a name in presets: self.config = from_dict(presets[preset])
apply_preset(cfg, preset) == from_dict(presets[preset])

\* apply_preset writing the fields of the preset into the PermissionConfig
\* in place, one field at a time
apply_preset_writes_in_place(cfg, preset) ==
    <<[cfg EXCEPT !.denied_tools = apply_preset(cfg, preset).denied_tools],
      [cfg EXCEPT !.denied_tools = apply_preset(cfg, preset).denied_tools,
                  !.deny_rules = apply_preset(cfg, preset).deny_rules],
      [apply_preset(cfg, preset) EXCEPT !.allow_rules = cfg.allow_rules],
      apply_preset(cfg, preset)>>

\* the values that apply_preset gives to self.config, in order, for a name in
\* presets: new_config is built beside the PermissionConfig in use, and the
\* one assignment self.config = new_config puts it in place
apply_preset_writes(cfg, preset) == <<apply_preset(cfg, preset)>>

\* apply_preset raising ValueError for an unknown name after it has put a
\* fresh PermissionConfig() in place
apply_preset_outcome_resets_first(cfg, preset) ==
    IF preset \notin DOMAIN presets
    THEN [raised |-> TRUE, config |-> PermissionConfig]
    ELSE [raised |-> FALSE, config |-> apply_preset(cfg, preset)]

\* apply_preset as called: `if preset not in presets: raise ValueError` comes
\* before self.config is assigned, so the raise leaves the config as it was
apply_preset_outcome(cfg, preset) ==
    IF preset \notin DOMAIN presets
    THEN [raised |-> TRUE, config |-> cfg]
    ELSE [raised |-> FALSE, config |-> apply_preset(cfg, preset)]

\* the characters \w matches, among the ASCII characters the texts are made of
WordChars ==
    { "a","b","c","d","e","f","g","h","i","j","k","l","m","n","o","p","q","r",
      "s","t","u","v","w","x","y","z","A","B","C","D","E","F","G","H","I","J",
      "K","L","M","N","O","P","Q","R","S","T","U","V","W","X","Y","Z","0","1",
      "2","3","4","5","6","7","8","9","_" }

\* the end of the longest run of word characters that starts after position n
RECURSIVE WordPrefix(_, _)
WordPrefix(text, n) ==
    IF n < Len(text) /\ text[n + 1] \in WordChars
    THEN WordPrefix(text, n + 1) ELSE n

\* re.match(r"^(\w+)\((.*)\)$", text) and match.groups(): \w+ runs to the
\* first "(", `.` matches no newline, and `$` matches at the end of the text
\* and before a newline that ends it
command_match(text) ==
    LET n == Len(text)
        k == WordPrefix(text, 0)
        close == IF n >= 1 /\ text[n] = ")" THEN n
                 ELSE IF n >= 2 /\ text[n] = "\n" /\ text[n - 1] = ")"
                      THEN n - 1 ELSE 0
    IN  IF /\ k >= 1
           /\ k < n
           /\ text[k + 1] = "("
           /\ close >= k + 2
           /\ \A i \in (k + 2)..(close - 1) : text[i] # "\n"
        THEN [matched |-> TRUE, tool_name |-> SubSeq(text, 1, k),
              command |-> SubSeq(text, k + 2, close - 1)]
        ELSE [matched |-> FALSE, tool_name |-> <<>>, command |-> <<>>]

\* the reasons validate_command gives itself; pattern holds the name cited
InvalidFormat == [kind |-> "InvalidFormat", tool |-> "", pattern |-> <<>>]
UnknownTool(tool_name) ==
    [kind |-> "UnknownTool", tool |-> "", pattern |-> tool_name]

\* the catalog members ClaudeCodeTool(tool_name) can return: the member whose
\* value is the name, none when the constructor raises ValueError
ToolsByValue(tool_name) == { tool \in ClaudeCodeTool : ToolValue[tool] = tool_name }

\* validate_command(full_command)
validate_command(cfg, text) ==
    LET match == command_match(text)
        tools == ToolsByValue(match.tool_name)
    IN  IF ~match.matched
        THEN [allowed |-> FALSE, reason |-> InvalidFormat]
        ELSE IF tools = {}
             THEN [allowed |-> FALSE, reason |-> UnknownTool(match.tool_name)]
             ELSE check_permission(cfg, CHOOSE tool \in tools : TRUE,
                                   match.command)

\* export_config: json.dumps(self.config.to_dict()); the JSON text is kept as
\* the dict of lists of strings it encodes, which json.loads gives back
export_config(cfg) == to_dict(cfg)

\* import_config assigning the fields of self.config one at a time, so that
\* the allowed tools are in place when a name in denied_tools raises
import_config_outcome_field_by_field(cfg, document) ==
    IF UnknownNames(document) # {}
    THEN [raised |-> TRUE,
          config |-> IF /\ "allowed_tools" \in DOMAIN document
                        /\ ToolSet(document.allowed_tools) \subseteq ClaudeCodeTool
                     THEN [cfg EXCEPT
                             !.allowed_tools = ToolSet(document.allowed_tools)]
                     ELSE cfg]
    ELSE [raised |-> FALSE, config |-> from_dict(WithToolSets(document))]

\* import_config: from_dict raises ValueError at the first name outside the
\* catalog, before self.config is assigned; otherwise self.config is the
\* config from_dict built
import_config_outcome(cfg, document) ==
    IF UnknownNames(document) # {}
    THEN [raised |-> TRUE, config |-> cfg]
    ELSE [raised |-> FALSE, config |-> from_dict(WithToolSets(document))]

(***************************************************************************)
(* PerformanceMonitor (monitoring.py)                                      *)
(***************************************************************************)
\* an Optional[str]: None is the empty tuple, a string s the tuple <<s>>
None == <<>>
Some(s) == <<s>>

\* the truth value Python gives an Optional[str]: None and "" are false
Truthy(opt) == opt # None /\ opt[1] # ""

\* how the body of a tracking scope ends: without an exception, or with an
\* exception exc_val whose str() is the message
NoError == [raised |-> FALSE, message |-> ""]
Failure(message) == [raised |-> TRUE, message |-> message]

\* `metadata or {}` for a call without metadata
EmptyMeta == [key \in {} |-> ""]

\* self.meta.get("tool")
MetaTool(meta) == IF "tool" \in DOMAIN meta THEN Some(meta.tool) ELSE None

\* PerformanceMetric(operation, duration, timestamp, success, error, metadata)
PerformanceMetric(operation, duration, timestamp, success, error, metadata) ==
    [operation |-> operation, duration |-> duration, timestamp |-> timestamp,
     success |-> success, error |-> error, metadata |-> metadata]

\* the capacity the monitor is constructed with (max_history, 1000 if not
\* given)
max_history == 1

\* the append of a list without maxlen: nothing is ever dropped
deque_append_unbounded(history, metric) == Append(history, metric)

\* deque(maxlen=max_history).append: a full deque drops its oldest entry
deque_append(history, metric) ==
    IF Len(history) >= max_history
    THEN Append(Tail(history), metric)
    ELSE Append(history, metric)

\* the number of error texts a ToolUsageStats keeps
MaxToolErrors == 10

\* ToolUsageStats(tool=tool)
ToolUsageStats(tool) ==
    [tool |-> tool, count |-> 0, success_count |-> 0, error_count |-> 0,
     total_duration |-> 0, last_used |-> None, errors |-> <<>>]

InList(x, list) == \E i \in 1..Len(list) : list[i] = x

\* _update_tool_stats(tool, duration, success, error) at clock reading now
update_tool_stats(stats_by_tool, tool, duration, success, error, now) ==
    LET stats == IF tool \in DOMAIN stats_by_tool
                 THEN stats_by_tool[tool] ELSE ToolUsageStats(tool)
        counted == [stats EXCEPT !.count = @ + 1,
                                 !.total_duration = @ + duration,
                                 !.last_used = Some(now)]
        kept == IF Truthy(error) /\ ~InList(error[1], stats.errors)
                THEN LET added == Append(stats.errors, error[1])
                     IN  IF Len(added) > MaxToolErrors THEN Tail(added)
                         ELSE added
                ELSE stats.errors
        updated == IF success
                   THEN [counted EXCEPT !.success_count = @ + 1]
                   ELSE [counted EXCEPT !.error_count = @ + 1,
                                        !.errors = kept]
    IN  (tool :> updated) @@ stats_by_tool

\* lines 86-91 of __aexit__: the tool statistics are updated when the metadata
\* names a tool of the catalog; ClaudeCodeTool(tool_name) raising ValueError
\* for another name is caught and passed over
tool_stats_after(stats_by_tool, meta, duration, success, error, now) ==
    IF Truthy(MetaTool(meta)) /\ meta.tool \in ClaudeCodeTool
    THEN update_tool_stats(stats_by_tool, meta.tool, duration, success, error,
                           now)
    ELSE stats_by_tool

\* the number of operations counted for a tool
Counted(stats_by_tool, tool) ==
    IF tool \in DOMAIN stats_by_tool THEN stats_by_tool[tool].count ELSE 0

\* one handler invocation: handler(operation, error, metadata)
HandlerCall(handler, operation, error, metadata) ==
    [handler |-> handler, operation |-> operation, error |-> error,
     metadata |-> metadata]

\* what a handler raises when it fails
HandlerError == [raised |-> TRUE, message |-> "handler failed"]

RECURSIVE handle_error(_, _, _, _, _, _, _)
\* _handle_error without its try/except: a handler that raises ends the loop
\* and its exception leaves _handle_error
handle_error_uncaught(handlers, i, operation, error, metadata, calls, awaited) ==
    IF i > Len(handlers)
    THEN [calls |-> calls, next |-> 0, escaped |-> None]
    ELSE LET called == IF awaited THEN calls
                       ELSE Append(calls, HandlerCall(handlers[i], operation,
                                                      error, metadata))
         IN  IF handlers[i].is_coroutine /\ ~awaited
             THEN [calls |-> called, next |-> i, escaped |-> None]
             ELSE IF handlers[i].fails
                  THEN [calls |-> called, next |-> 0,
                        escaped |-> Some(HandlerError)]
                  ELSE handle_error(handlers, i + 1, operation, error,
                                    metadata, called, FALSE)

\* the loop of _handle_error from the handler at index i on: every handler is
\* called in list order; a handler that raises has its exception caught and
\* logged, and the loop goes on. The loop pauses inside a coroutine handler
\* that is awaited (next is its index) and is entered again, with awaited
\* true, when that handler returns or raises; it is over when next is 0.
\* escaped is the exception that leaves _handle_error: none.
handle_error(handlers, i, operation, error, metadata, calls, awaited) ==
    IF i > Len(handlers)
    THEN [calls |-> calls, next |-> 0, escaped |-> None]
    ELSE LET called == IF awaited THEN calls
                       ELSE Append(calls, HandlerCall(handlers[i], operation,
                                                      error, metadata))
         IN  IF handlers[i].is_coroutine /\ ~awaited
             THEN [calls |-> called, next |-> i, escaped |-> None]
             ELSE handle_error(handlers, i + 1, operation, error, metadata,
                               called, FALSE)

\* a quotient of two counts, as the pair of them
Ratio(num, den) == [num |-> num, den |-> den]

RECURSIVE SumDurations(_)
SumDurations(ms) ==
    IF ms = <<>> THEN 0 ELSE Head(ms).duration + SumDurations(Tail(ms))

\* the entries of a list that satisfy the test, in list order
RECURSIVE Successful(_)
Successful(ms) ==
    IF ms = <<>> THEN <<>>
    ELSE (IF Head(ms).success THEN <<Head(ms)>> ELSE <<>>)
            \o Successful(Tail(ms))

RECURSIVE WithError(_)
WithError(ms) ==
    IF ms = <<>> THEN <<>>
    ELSE (IF Truthy(Head(ms).error) THEN <<Head(ms)>> ELSE <<>>)
            \o WithError(Tail(ms))

RECURSIVE OfOperation(_, _)
OfOperation(ms, op) ==
    IF ms = <<>> THEN <<>>
    ELSE (IF Head(ms).operation = op THEN <<Head(ms)>> ELSE <<>>)
            \o OfOperation(Tail(ms), op)

\* list[:n]
FirstN(list, n) == SubSeq(list, 1, IF Len(list) < n THEN Len(list) ELSE n)

\* the lengths of the error lists get_statistics returns: all_errors[:10] and,
\* for each operation, errors[:5]
MaxRecentErrors == 10
MaxOperationErrors == 5

\* get_statistics() without a time window, over the history ms
get_statistics(ms) ==
    IF ms = <<>>
    THEN [total_operations |-> 0, success_rate |-> Ratio(0, 1),
          average_duration |-> Ratio(0, 1),
          operations_by_type |-> [op \in {} |-> 0], errors |-> <<>>]
    ELSE [total_operations |-> Len(ms),
          success_rate |-> Ratio(Len(Successful(ms)), Len(ms)),
          average_duration |-> Ratio(SumDurations(ms), Len(ms)),
          operations_by_type |->
              [op \in { ms[i].operation : i \in 1..Len(ms) } |->
                  LET of_op == OfOperation(ms, op)
                      failed == WithError(of_op)
                  IN  [count |-> Len(of_op),
                       success_rate |-> Ratio(Len(Successful(of_op)), Len(of_op)),
                       average_duration |-> Ratio(SumDurations(of_op), Len(of_op)),
                       errors |-> FirstN([i \in 1..Len(failed) |->
                                             failed[i].error[1]],
                                         MaxOperationErrors)]],
          errors |-> FirstN([i \in 1..Len(WithError(ms)) |->
                               [operation |-> WithError(ms)[i].operation,
                                error |-> WithError(ms)[i].error[1],
                                timestamp |-> WithError(ms)[i].timestamp]],
                            MaxRecentErrors)]

\* get_tool_statistics()["tools"]: per tool that was used, its counters and
\* success_count / count
get_tool_statistics(stats_by_tool) ==
    [tool \in { t \in DOMAIN stats_by_tool : stats_by_tool[t].count # 0 } |->
        [count |-> stats_by_tool[tool].count,
         success_count |-> stats_by_tool[tool].success_count,
         error_count |-> stats_by_tool[tool].error_count,
         success_rate |-> Ratio(stats_by_tool[tool].success_count,
                                stats_by_tool[tool].count),
         average_duration |-> Ratio(stats_by_tool[tool].total_duration,
                                    stats_by_tool[tool].count)]]

(***************************************************************************)
(* ErrorRecovery (monitoring.py): recovery strategies registered under     *)
(* error patterns, and a retry counter per error key                       *)
(***************************************************************************)
UpperCase ==
    <<"A","B","C","D","E","F","G","H","I","J","K","L","M",
      "N","O","P","Q","R","S","T","U","V","W","X","Y","Z">>

LowerCase ==
    <<"a","b","c","d","e","f","g","h","i","j","k","l","m",
      "n","o","p","q","r","s","t","u","v","w","x","y","z">>

\* str.lower() on one character and on a text
lower_char(c) ==
    IF \E i \in 1..Len(UpperCase) : UpperCase[i] = c
    THEN LowerCase[CHOOSE i \in 1..Len(UpperCase) : UpperCase[i] = c]
    ELSE c

lower(text) == [i \in 1..Len(text) |-> lower_char(text[i])]

\* Python's `sub in text` on strings: text holds sub as a substring, letter
\* case included
Contains(sub, text) ==
    \E i \in 0..(Len(text) - Len(sub)) : SubSeq(text, i + 1, i + Len(sub)) = sub

\* ErrorRecovery.max_retries
max_retries == 3

\* an exception: type(error).__name__ and str(error)
Error(type, message) == [type |-> type, message |-> message]

\* f"{error_type}:{context.get('operation', 'unknown')}"
error_key(error, context) ==
    error.type \o <<":">> \o
        (IF "operation" \in DOMAIN context
         THEN context.operation
         ELSE <<"u","n","k","n","o","w","n">>)

\* the strategies: the two coroutines that monitoring.py registers by
\* default, the mock of the tests (a coroutine that makes the test of
\* rate_limit_recovery and returns at once), and a plain function that raises
rate_limit_recovery == [name |-> "rate_limit_recovery"]
connection_error_recovery == [name |-> "connection_error_recovery"]
mock_recovery == [name |-> "mock_recovery"]
failing_recovery == [name |-> "failing_recovery"]

\* one call strategy(error, context). sleeps: the strategy awaits
\* asyncio.sleep before it returns, so that other calls run meanwhile;
\* result: what it returns; raises: it raises an Exception instead.
\* rate_limit_recovery: True after 60 seconds when the lower-cased error text
\* holds "rate limit", else None at once. connection_error_recovery: True
\* after 5 seconds for a ConnectionError or TimeoutError, else None at once.
\* mock_recovery: True or None as rate_limit_recovery, without sleeping.
strategy_outcome(strategy, error) ==
    LET recovers ==
            CASE strategy \in {rate_limit_recovery, mock_recovery} ->
                    Contains(<<"r","a","t","e"," ","l","i","m","i","t">>,
                             lower(error.message))
              [] strategy = connection_error_recovery ->
                    error.type \in
                        { <<"C","o","n","n","e","c","t","i","o","n",
                            "E","r","r","o","r">>,
                          <<"T","i","m","e","o","u","t","E","r","r","o","r">> }
              [] OTHER -> FALSE
    IN  [sleeps |-> recovers /\ strategy # mock_recovery,
         result |-> IF recovers THEN Some(TRUE) ELSE None,
         raises |-> strategy = failing_recovery]

\* register_recovery(error_pattern, strategy) on the defaultdict(list), kept
\* as the list of its items in insertion order
register_recovery(strategies, pattern, strategy) ==
    IF \E p \in 1..Len(strategies) : strategies[p].pattern = pattern
    THEN [p \in 1..Len(strategies) |->
            IF strategies[p].pattern = pattern
            THEN [strategies[p] EXCEPT !.strategies = Append(@, strategy)]
            ELSE strategies[p]]
    ELSE Append(strategies, [pattern |-> pattern, strategies |-> <<strategy>>])

\* error_counts[error_key] += 1 on the defaultdict(int)
count_error(counts, key) ==
    IF key \in DOMAIN counts
    THEN [counts EXCEPT ![key] = @ + 1]
    ELSE (key :> 1) @@ counts

\* error_counts[error_key] = 0
reset_error_count(counts, key) ==
    IF key \in DOMAIN counts
    THEN [counts EXCEPT ![key] = 0]
    ELSE (key :> 0) @@ counts

\* the loops of handle_error from strategy s of the item p on: the items
\* whose pattern is in the error type or in the error text, in insertion
\* order, and their strategies in list order. A strategy that raises is
\* logged and the loop goes on; one that returns None is passed; the first
\* result that is not None is returned. The loop pauses (state "awaiting")
\* where a strategy sleeps, and is over (state "returned") otherwise.
\* invoked lists the strategies called.
RECURSIVE recover(_, _, _, _, _)
\* the loops without the test of the pattern: every item is consulted
recover_every_item(strategies, p, s, error, invoked) ==
    IF p > Len(strategies)
    THEN [state |-> "returned", result |-> None, invoked |-> invoked,
          p |-> 0, s |-> 0]
    ELSE IF s > Len(strategies[p].strategies)
         THEN recover(strategies, p + 1, 1, error, invoked)
         ELSE LET strategy == strategies[p].strategies[s]
                  outcome == strategy_outcome(strategy, error)
                  called == Append(invoked, strategy.name)
              IN  IF outcome.raises
                  THEN recover(strategies, p, s + 1, error, called)
                  ELSE IF outcome.sleeps
                  THEN [state |-> "awaiting", result |-> None,
                        invoked |-> called, p |-> p, s |-> s]
                  ELSE IF outcome.result # None
                  THEN [state |-> "returned", result |-> outcome.result,
                        invoked |-> called, p |-> 0, s |-> 0]
                  ELSE recover(strategies, p, s + 1, error, called)

\* the loops without the try/except around the call of the strategy: a
\* strategy that raises ends handle_error, which raises (state "raised")
recover_uncaught(strategies, p, s, error, invoked) ==
    IF p > Len(strategies)
    THEN [state |-> "returned", result |-> None, invoked |-> invoked,
          p |-> 0, s |-> 0]
    ELSE IF \/ ~(\/ Contains(strategies[p].pattern, error.type)
                 \/ Contains(strategies[p].pattern, error.message))
            \/ s > Len(strategies[p].strategies)
         THEN recover(strategies, p + 1, 1, error, invoked)
         ELSE LET strategy == strategies[p].strategies[s]
                  outcome == strategy_outcome(strategy, error)
                  called == Append(invoked, strategy.name)
              IN  IF outcome.raises
                  THEN [state |-> "raised", result |-> None,
                        invoked |-> called, p |-> 0, s |-> 0]
                  ELSE IF outcome.sleeps
                  THEN [state |-> "awaiting", result |-> None,
                        invoked |-> called, p |-> p, s |-> s]
                  ELSE IF outcome.result # None
                  THEN [state |-> "returned", result |-> outcome.result,
                        invoked |-> called, p |-> 0, s |-> 0]
                  ELSE recover(strategies, p, s + 1, error, called)

recover(strategies, p, s, error, invoked) ==
    IF p > Len(strategies)
    THEN [state |-> "returned", result |-> None, invoked |-> invoked,
          p |-> 0, s |-> 0]
    ELSE IF \/ ~(\/ Contains(strategies[p].pattern, error.type)
                 \/ Contains(strategies[p].pattern, error.message))
            \/ s > Len(strategies[p].strategies)
         THEN recover(strategies, p + 1, 1, error, invoked)
         ELSE LET strategy == strategies[p].strategies[s]
                  outcome == strategy_outcome(strategy, error)
                  called == Append(invoked, strategy.name)
              IN  IF outcome.raises
                  THEN recover(strategies, p, s + 1, error, called)
                  ELSE IF outcome.sleeps
                  THEN [state |-> "awaiting", result |-> None,
                        invoked |-> called, p |-> p, s |-> s]
                  ELSE IF outcome.result # None
                  THEN [state |-> "returned", result |-> outcome.result,
                        invoked |-> called, p |-> 0, s |-> 0]
                  ELSE recover(strategies, p, s + 1, error, called)

\* the loops of handle_error when the strategy that slept returns
resume(strategies, p, s, error, invoked) ==
    LET outcome == strategy_outcome(strategies[p].strategies[s], error)
    IN  IF outcome.result # None
        THEN [state |-> "returned", result |-> outcome.result,
              invoked |-> invoked, p |-> 0, s |-> 0]
        ELSE recover(strategies, p, s + 1, error, invoked)

\* a cancellation caught like a failure of the strategy: the loops go on
cancel_caught(strategies, p, s, error, invoked) ==
    recover(strategies, p, s + 1, error, invoked)

\* the loops of handle_error when the task that runs it is cancelled while
\* the strategy sleeps: asyncio.sleep raises CancelledError, which is a
\* BaseException and passes the `except Exception` of the loop, so it leaves
\* handle_error (state "raised") and no further strategy is called
cancel(strategies, p, s, error, invoked) ==
    [state |-> "raised", result |-> None, invoked |-> invoked,
     p |-> 0, s |-> 0]

\* the counter set to zero whatever the loops gave
counted_always_reset(counts, key, looped) ==
    reset_error_count(counts, key)

\* the counter of a key after the loops: zero when a strategy returned a
\* result, as it was otherwise
counted(counts, key, looped) ==
    IF looped.state = "returned" /\ looped.result # None
    THEN reset_error_count(counts, key)
    ELSE counts

\* handle_error without the check of the counter against max_retries
ErrorRecovery_handle_error_no_ceiling(counts, strategies, error, context) ==
    LET key == error_key(error, context)
        looped == recover(strategies, 1, 1, error, <<>>)
    IN  looped @@
        [counts |-> counted(count_error(counts, key), key, looped)]

\* handle_error that leaves the counter as it is when a strategy recovers
ErrorRecovery_handle_error_keeps_count(counts, strategies, error, context) ==
    LET key == error_key(error, context)
        after == count_error(counts, key)
    IN  IF after[key] > max_retries
        THEN [state |-> "returned", result |-> None, invoked |-> <<>>,
              p |-> 0, s |-> 0, counts |-> after]
        ELSE recover(strategies, 1, 1, error, <<>>) @@ [counts |-> after]

\* ErrorRecovery.handle_error(error, context) up to its first suspension:
\* the counter of the key is incremented; above max_retries None is returned
\* and no strategy is called; otherwise the strategies are tried, and the
\* counter is set to zero when one returns a result. counts is the counter
\* table after the step.
ErrorRecovery_handle_error(counts, strategies, error, context) ==
    LET key == error_key(error, context)
        after == count_error(counts, key)
    IN  IF after[key] > max_retries
        THEN [state |-> "returned", result |-> None, invoked |-> <<>>,
              p |-> 0, s |-> 0, counts |-> after]
        ELSE LET looped == recover(strategies, 1, 1, error, <<>>)
             IN  looped @@ [counts |-> counted(after, key, looped)]

(***************************************************************************)
(* ToolManager (tools.py): a table of ToolPermission dicts per tool. The   *)
(* dicts of DEFAULT_TOOL_PERMISSIONS are module-level objects that every    *)
(* manager puts into its table as they are, so a manager that sets a       *)
(* permission of such a tool writes into the object all managers share.    *)
(***************************************************************************)
\* DEFAULT_TOOL_PERMISSIONS as the module defines it (descriptions left out)
DEFAULT_TOOL_PERMISSIONS ==
    << [tool |-> "Read", allowed |-> TRUE, restrictions |-> None],
       [tool |-> "Grep", allowed |-> TRUE, restrictions |-> None],
       [tool |-> "Glob", allowed |-> TRUE, restrictions |-> None],
       [tool |-> "TodoWrite", allowed |-> TRUE, restrictions |-> None],
       [tool |-> "Task", allowed |-> TRUE, restrictions |-> None],
       [tool |-> "WebSearch", allowed |-> TRUE, restrictions |-> None],
       [tool |-> "WebFetch", allowed |-> FALSE, restrictions |-> None],
       [tool |-> "Bash", allowed |-> FALSE, restrictions |-> None],
       [tool |-> "Write", allowed |-> FALSE, restrictions |-> None],
       [tool |-> "Edit", allowed |-> FALSE, restrictions |-> None] >>

\* SCENARIO_PRESETS[scenario]["allowed_tools"]
SCENARIO_PRESETS ==
    [ readonly |-> <<"Read", "Grep", "Glob", "LS", "WebSearch">>,
      content_generation |-> <<"TodoWrite", "Task", "WebSearch", "Read">>,
      development |-> <<"Read", "Write", "Edit", "MultiEdit", "Grep", "Glob",
                        "LS", "TodoWrite", "Task", "WebSearch", "WebFetch">> ]

\* the members of the enum ClaudeCodeTool in definition order, as
\* `for tool in ClaudeCodeTool` gives them
ClaudeCodeToolMembers ==
    <<"Bash", "Edit", "Glob", "Grep", "LS", "MultiEdit", "NotebookEdit",
      "NotebookRead", "Read", "Task", "TodoWrite", "WebFetch", "WebSearch",
      "Write">>

\* ToolManager.__init__ without custom permissions: the table holds, per
\* default tool, the default dict itself (ref is its index in defaults);
\* a dict of the manager's own has ref 0 and its fields in the entry
ToolManager ==
    [i \in 1..Len(DEFAULT_TOOL_PERMISSIONS) |->
        [tool |-> DEFAULT_TOOL_PERMISSIONS[i].tool, ref |-> i,
         allowed |-> FALSE, restrictions |-> None]]

\* self.permissions[tool] of a manager m = [permissions, defaults]: the dict
\* that the entry of index i stands for
PermOf(m, i) ==
    IF m.permissions[i].ref > 0
    THEN m.defaults[m.permissions[i].ref]
    ELSE m.permissions[i]

\* the index of a tool's entry in the table, 0 when it has none
EntryOf(m, tool) ==
    IF \E i \in 1..Len(m.permissions) : m.permissions[i].tool = tool
    THEN CHOOSE i \in 1..Len(m.permissions) : m.permissions[i].tool = tool
    ELSE 0

\* get_allowed_tools: the tools whose dict has a true "allowed", in table
\* order
RECURSIVE allowed_from(_, _)
allowed_from(m, i) ==
    IF i > Len(m.permissions) THEN <<>>
    ELSE (IF PermOf(m, i).allowed THEN <<m.permissions[i].tool>> ELSE <<>>)
         \o allowed_from(m, i + 1)

get_allowed_tools(m) == allowed_from(m, 1)

\* is_tool_allowed(tool)
is_tool_allowed(m, tool) ==
    EntryOf(m, tool) > 0 /\ PermOf(m, EntryOf(m, tool)).allowed

\* set_tool_permission(tool, allowed, restrictions): a tool without an entry
\* gets a dict of the manager's own; "allowed" is written into the tool's
\* dict, and "restrictions" when the list given is not empty
set_tool_permission(m, tool, allowed, restrictions) ==
    LET with == IF EntryOf(m, tool) = 0
                THEN [m EXCEPT !.permissions =
                         Append(@, [tool |-> tool, ref |-> 0,
                                    allowed |-> FALSE,
                                    restrictions |-> None])]
                ELSE m
        i == EntryOf(with, tool)
        ref == with.permissions[i].ref
        kept == PermOf(with, i).restrictions
        given == IF restrictions # None /\ restrictions[1] # <<>>
                 THEN restrictions ELSE kept
    IN  IF ref > 0
        THEN [with EXCEPT !.defaults[ref].allowed = allowed,
                          !.defaults[ref].restrictions = given]
        ELSE [with EXCEPT !.permissions[i].allowed = allowed,
                          !.permissions[i].restrictions = given]

\* set_tool_permission(tool, allowed) for every tool of a list in turn
RECURSIVE set_each(_, _, _)
set_each(m, tools, allowed) ==
    IF tools = <<>> THEN m
    ELSE CHOOSE done \in
             { set_each(after, rest, allowed) :
                   after \in {set_tool_permission(m, Head(tools), allowed,
                                                  None)},
                   rest \in {Tail(tools)} } : TRUE

\* apply_scenario that enables the scenario's tools without disabling the
\* others first
apply_scenario_keeps_enabled(m, scenario) ==
    IF scenario \notin DOMAIN SCENARIO_PRESETS
    THEN [raised |-> TRUE, manager |-> m]
    ELSE [raised |-> FALSE,
          manager |-> set_each(m, SCENARIO_PRESETS[scenario], TRUE)]

\* apply_scenario(scenario): ValueError for a name that is no preset, before
\* anything is written; otherwise every member of ClaudeCodeTool is set to
\* not allowed, then the scenario's allowed_tools are set to allowed
apply_scenario(m, scenario) ==
    IF scenario \notin DOMAIN SCENARIO_PRESETS
    THEN [raised |-> TRUE, manager |-> m]
    ELSE [raised |-> FALSE,
          manager |-> set_each(set_each(m, ClaudeCodeToolMembers, FALSE),
                               SCENARIO_PRESETS[scenario], TRUE)]

(***************************************************************************)
(* The state machine: one PermissionManager and the outcome of the last    *)
(* call made on it; one PerformanceMonitor, the tracking scopes open on   *)
(* it and the scope that finished last; one ErrorRecovery, its call of      *)
(* handle_error that is suspended, the call on it that returned last and   *)
(* a summary of the returns before that one; one ToolManager, the default  *)
(* permission dicts of the module and the outcome of the last call; and,   *)
(* for the statistics of a PerformanceMonitor with a long history, a       *)
(* history of metrics and the error texts of a tool's failures so far      *)
(***************************************************************************)
VARIABLES config, last, new_config,
          clock, start_times, metrics, tool_stats, error_handlers,
          scopes, exited, started,
          recovery_strategies, error_counts, pending, returned, earlier,
          tool_permissions, default_permissions, tool_last,
          sample, failures

permission_vars == <<config, last, new_config>>

monitor_vars ==
    <<clock, start_times, metrics, tool_stats, error_handlers, scopes, exited,
      started>>

recovery_vars ==
    <<recovery_strategies, error_counts, pending, returned, earlier>>

tool_vars == <<tool_permissions, default_permissions, tool_last>>

sample_vars == <<sample, failures>>

vars ==
    <<permission_vars, monitor_vars, recovery_vars, tool_vars, sample_vars>>

\* the outcome of a call that returns nothing
Returned(op) ==
    [op |-> op, tool |-> "", command |-> <<>>, allowed |-> FALSE,
     reason |-> NoReason, raised |-> FALSE]

\* the readings of time.time() and time.perf_counter(): two scopes are
\* opened at one reading or at different ones
ClockReadings == {0, 1}

\* the bounds of the tracker: scopes open at a time, operations tracked in
\* all, handlers registered
MaxOpen == 2
MaxOperations == 2
MaxHandlers == 2

\* a slot that holds no OperationContext
NoScope == [state |-> "none"]

\* PerformanceMonitor(max_history): empty history, statistics, handler list
\* and start times
MonitorInit ==
    /\ clock = 0
    /\ start_times = [id \in {} |-> 0]
    /\ metrics = <<>>
    /\ tool_stats = [tool \in {} |-> 0]
    /\ error_handlers = <<>>
    /\ scopes = [slot \in 1..MaxOpen |-> NoScope]
    /\ exited = NoScope
    /\ started = 0

\* no call of handle_error is suspended
NoCall == [state |-> "none"]

\* nothing has returned yet
NoReturns == [key |-> <<>>, failures |-> 0, recovered |-> FALSE]

\* ErrorRecovery(): no strategy, no counter
RecoveryInit ==
    /\ recovery_strategies = <<>>
    /\ error_counts = [key \in {} |-> 0]
    /\ pending = NoCall
    /\ returned = NoCall
    /\ earlier = NoReturns

\* the first ToolManager() after the module is loaded
ToolInit ==
    /\ tool_permissions = ToolManager
    /\ default_permissions = DEFAULT_TOOL_PERMISSIONS
    /\ tool_last = [op |-> "__init__"]

\* PermissionManager(): config = PermissionConfig() and the defaults added;
\* PerformanceMonitor(); ErrorRecovery(); ToolManager() on the module as
\* loaded
Init ==
    /\ config = init_default_permissions(PermissionConfig)
    /\ last = Returned("__init__")
    /\ new_config = NoCall
    /\ MonitorInit
    /\ RecoveryInit
    /\ ToolInit
    /\ sample = <<>>
    /\ failures = <<>>

CheckPermission ==
    \E in \in CheckInputs :
        LET res == check_permission(config, in[1], in[2])
        IN  /\ last' = [op |-> "check_permission", tool |-> in[1],
                        command |-> in[2], allowed |-> res.allowed,
                        reason |-> res.reason, raised |-> FALSE]
            /\ UNCHANGED config

AddAllowedTool ==
    \E tool \in ToolInputs :
        /\ config' = add_allowed_tool(config, tool)
        /\ last' = [Returned("add_allowed_tool") EXCEPT !.tool = tool]

AddDeniedTool ==
    \E tool \in ToolInputs :
        /\ config' = add_denied_tool(config, tool)
        /\ last' = [Returned("add_denied_tool") EXCEPT !.tool = tool]

\* the number of rules in the list that have the pattern
Occurrences(rules, pattern) ==
    Cardinality({ i \in 1..Len(rules) : rules[i].pattern = pattern })

\* the add is a no-op, or the list holds fewer than MaxSamePattern rules of
\* the rule's pattern
CanAdd(rule, rules) ==
    \/ InRules(rule, rules)
    \/ Occurrences(rules, rule.pattern) < MaxSamePattern

AddAllowRule ==
    \E rule \in AllowRuleInputs :
        /\ CanAdd(rule, config.allow_rules)
        /\ config' = add_allow_rule(config, rule.pattern, rule.is_regex)
        /\ last' = Returned("add_allow_rule")

AddDenyRule ==
    \E rule \in DenyRuleInputs :
        /\ CanAdd(rule, config.deny_rules)
        /\ config' = add_deny_rule(config, rule.pattern, rule.is_regex)
        /\ last' = Returned("add_deny_rule")

RemoveAllowRule ==
    \E pattern \in PatternInputs :
        /\ config' = remove_allow_rule(config, pattern)
        /\ last' = Returned("remove_allow_rule")

RemoveDenyRule ==
    \E pattern \in PatternInputs :
        /\ config' = remove_deny_rule(config, pattern)
        /\ last' = Returned("remove_deny_rule")

\* validate_command(text): nothing in it raises for a string argument, the
\* ValueError of ClaudeCodeTool(tool_name) being caught
ValidateCommand ==
    \E text \in TextInputs :
        LET res == validate_command(config, text)
        IN  /\ last' = [op |-> "validate_command", text |-> text,
                        allowed |-> res.allowed, reason |-> res.reason,
                        raised |-> FALSE]
            /\ UNCHANGED config

\* import_config(document), for the given documents and for the text
\* export_config() returns; last records the document and whether it raised
ImportConfig ==
    \E document \in DocumentInputs \cup {export_config(config)} :
        LET out == import_config_outcome(config, document)
        IN  /\ config' = out.config
            /\ last' = [op |-> "import_config", document |-> document,
                        raised |-> out.raised]

\* apply_preset(preset); last records the name given and whether it raised
ApplyPreset ==
    \E preset \in PresetInputs :
        LET out == apply_preset_outcome(config, preset)
        IN  /\ config' = out.config
            /\ last' = [op |-> "apply_preset", preset |-> preset,
                        raised |-> out.raised]

\* the PermissionManager's calls; the monitor is not touched
Next ==
    \/ CheckPermission
          /\ UNCHANGED <<new_config, monitor_vars, recovery_vars, tool_vars,
                         sample_vars>>
    \/ AddAllowedTool
          /\ UNCHANGED <<new_config, monitor_vars, recovery_vars, tool_vars,
                         sample_vars>>
    \/ AddDeniedTool
          /\ UNCHANGED <<new_config, monitor_vars, recovery_vars, tool_vars,
                         sample_vars>>
    \/ AddAllowRule
          /\ UNCHANGED <<new_config, monitor_vars, recovery_vars, tool_vars,
                         sample_vars>>
    \/ AddDenyRule
          /\ UNCHANGED <<new_config, monitor_vars, recovery_vars, tool_vars,
                         sample_vars>>
    \/ RemoveAllowRule
          /\ UNCHANGED <<new_config, monitor_vars, recovery_vars, tool_vars,
                         sample_vars>>
    \/ RemoveDenyRule
          /\ UNCHANGED <<new_config, monitor_vars, recovery_vars, tool_vars,
                         sample_vars>>
    \/ ApplyPreset
          /\ UNCHANGED <<new_config, monitor_vars, recovery_vars, tool_vars,
                         sample_vars>>
    \/ ImportConfig
          /\ UNCHANGED <<new_config, monitor_vars, recovery_vars, tool_vars,
                         sample_vars>>
    \/ ValidateCommand
          /\ UNCHANGED <<new_config, monitor_vars, recovery_vars, tool_vars,
                         sample_vars>>

Spec == Init /\ [][Next]_vars

(***************************************************************************)
(* The rule lists of a PermissionManager under add_allow_rule and          *)
(* add_deny_rule alone, called with either is_regex flag                   *)
(***************************************************************************)
\* the rules added: the pattern Bash(rm*), which the default deny rules
\* hold as a wildcard rule, and the pattern Bash(git*); each as a wildcard
\* rule and as a regular expression
AnyFlagRuleInputs ==
    { PermissionRule(pattern, is_regex) :
        pattern \in { <<"B","a","s","h","(","r","m","*",")">>,
                      <<"B","a","s","h","(","g","i","t","*",")">> },
        is_regex \in BOOLEAN }

\* add_allow_rule(pattern, is_regex)
AddAllowRuleAnyFlag ==
    \E rule \in AnyFlagRuleInputs :
        /\ config' = add_allow_rule(config, rule.pattern, rule.is_regex)
        /\ last' = [Returned("add_allow_rule") EXCEPT
                       !.command = rule.pattern]

\* add_deny_rule(pattern, is_regex)
AddDenyRuleAnyFlag ==
    \E rule \in AnyFlagRuleInputs :
        /\ config' = add_deny_rule(config, rule.pattern, rule.is_regex)
        /\ last' = [Returned("add_deny_rule") EXCEPT
                       !.command = rule.pattern]

RuleNext ==
    \/ AddAllowRuleAnyFlag
          /\ UNCHANGED <<new_config, monitor_vars, recovery_vars, tool_vars,
                         sample_vars>>
    \/ AddDenyRuleAnyFlag
          /\ UNCHANGED <<new_config, monitor_vars, recovery_vars, tool_vars,
                         sample_vars>>

RuleSpec == Init /\ [][RuleNext]_vars

(***************************************************************************)
(* apply_preset and import_config statement by statement: the new          *)
(* PermissionConfig is built beside the one in use and assigned to          *)
(* self.config afterwards. The methods of the PermissionManager are plain   *)
(* functions without an await: on the event loop check_permission runs from *)
(* its first test to its return, so it is one step. The two statements of   *)
(* apply_preset are separate steps here, and check_permission may run       *)
(* between them: more interleaving than the event loop allows.              *)
(***************************************************************************)

\* apply_preset(preset) up to the assignment: ValueError for an unknown name,
\* else new_config = PermissionConfig.from_dict(presets[preset])
BeginApplyPreset ==
    \E preset \in PresetInputs :
        /\ new_config = NoCall
        /\ IF apply_preset_outcome(config, preset).raised
           THEN /\ last' = [op |-> "apply_preset", preset |-> preset,
                            raised |-> TRUE]
                /\ UNCHANGED <<config, new_config>>
           ELSE /\ new_config' =
                      [state |-> "built", before |-> config,
                       after |-> apply_preset(config, preset),
                       writes |-> apply_preset_writes(config, preset),
                       returns |-> [op |-> "apply_preset",
                                    preset |-> preset, raised |-> FALSE]]
                /\ UNCHANGED <<config, last>>

\* import_config(document) up to the assignment: the ValueError of from_dict
\* for a name outside the catalog, else the PermissionConfig from_dict built
BeginImportConfig ==
    \E document \in DocumentInputs \cup {export_config(config)} :
        /\ new_config = NoCall
        /\ IF import_config_outcome(config, document).raised
           THEN /\ last' = [op |-> "import_config", document |-> document,
                            raised |-> TRUE]
                /\ UNCHANGED <<config, new_config>>
           ELSE /\ new_config' =
                      [state |-> "built", before |-> config,
                       after |-> import_config_outcome(config, document).config,
                       writes |->
                           <<import_config_outcome(config, document).config>>,
                       returns |-> [op |-> "import_config",
                                    document |-> document, raised |-> FALSE]]
                /\ UNCHANGED <<config, last>>

\* self.config = new_config, after which the call returns
AssignConfig ==
    /\ new_config # NoCall
    /\ config' = Head(new_config.writes)
    /\ IF Len(new_config.writes) = 1
       THEN /\ new_config' = NoCall
            /\ last' = new_config.returns
       ELSE /\ new_config' = [new_config EXCEPT !.writes = Tail(@)]
            /\ UNCHANGED last

\* the calls of the PermissionManager with apply_preset and import_config in
\* two steps: check_permission runs at any moment, the calls that change the
\* policy (these two, add_allowed_tool and add_denied_tool) one after the
\* other
PublishNext ==
    \/ BeginApplyPreset
          /\ UNCHANGED <<monitor_vars, recovery_vars, tool_vars, sample_vars>>
    \/ BeginImportConfig
          /\ UNCHANGED <<monitor_vars, recovery_vars, tool_vars, sample_vars>>
    \/ AssignConfig
          /\ UNCHANGED <<monitor_vars, recovery_vars, tool_vars, sample_vars>>
    \/ CheckPermission
          /\ UNCHANGED <<new_config, monitor_vars, recovery_vars, tool_vars,
                         sample_vars>>
    \/ AddAllowedTool
          /\ new_config = NoCall
          /\ UNCHANGED <<new_config, monitor_vars, recovery_vars, tool_vars,
                         sample_vars>>
    \/ AddDeniedTool
          /\ new_config = NoCall
          /\ UNCHANGED <<new_config, monitor_vars, recovery_vars, tool_vars,
                         sample_vars>>

PublishSpec == Init /\ [][PublishNext]_vars

(***************************************************************************)
(* The PerformanceMonitor's calls                                          *)
(***************************************************************************)
\* the operations tracked: a query without metadata, and tool executions
\* whose metadata names a tool of the catalog and a name outside it
TrackInputs ==
    { <<"query", EmptyMeta>>,
      <<"tool_execution", [tool |-> "Read"]>>,
      <<"tool_execution", [tool |-> "Shell"]>> }

\* how the tracked operation ends: it returns, it raises an exception with a
\* message, it raises an exception whose str() is empty
OutcomeInputs == { NoError, Failure("API error"), Failure("") }

\* the handlers registered: a plain function, and a coroutine function that
\* is awaited and raises
HandlerInputs ==
    { [name |-> "log_error", is_coroutine |-> FALSE, fails |-> FALSE],
      [name |-> "notify", is_coroutine |-> TRUE, fails |-> TRUE] }

\* OperationContext(monitor, op_id, op_name, meta), with the locals of its
\* __aexit__ once that has begun: the outcome of the body, the metric
\* appended, the handler calls made and the index of the handler awaited
OperationContext(op_id, op_name, meta) ==
    [state |-> "open", op_id |-> op_id, op_name |-> op_name, meta |-> meta,
     outcome |-> NoError, metric |-> None, calls |-> <<>>, next |-> 0]

\* the scope whose __aexit__ has returned or raised: what the caller sees
\* propagated, and the handlers registered at that moment
Finished(scope, propagated, handlers) ==
    [state |-> "exited", op_name |-> scope.op_name, meta |-> scope.meta,
     outcome |-> scope.outcome, metric |-> scope.metric,
     calls |-> scope.calls, propagated |-> propagated,
     registered |-> handlers]

KeyError == [raised |-> TRUE, message |-> "KeyError"]

\* what the caller of the scope sees: an exception that leaves __aexit__, or
\* the body's own outcome, since __aexit__ returns False
Propagated(outcome, escaped) == IF escaped # None THEN escaped[1] ELSE outcome

FreeSlots == { slot \in 1..MaxOpen : scopes[slot] = NoScope }

\* the clock that time.time() and time.perf_counter() read moves on
Tick ==
    /\ clock + 1 \in ClockReadings
    /\ clock' = clock + 1
    /\ UNCHANGED <<start_times, metrics, tool_stats, error_handlers, scopes,
                   exited, started, permission_vars>>

\* await track_operation(operation, metadata) and __aenter__: the operation
\* id is the name and the reading of time.time(); the start time is stored
\* under it, over any entry of the same id
TrackOperation ==
    \E in \in TrackInputs :
        LET op_id == <<in[1], clock>>
            slot == CHOOSE f \in FreeSlots : \A g \in FreeSlots : f <= g
        IN  /\ FreeSlots # {}
            /\ started < MaxOperations
            /\ started' = started + 1
            /\ start_times' = (op_id :> clock) @@ start_times
            /\ scopes' = [scopes EXCEPT
                            ![slot] = OperationContext(op_id, in[1], in[2])]
            /\ UNCHANGED <<clock, metrics, tool_stats, error_handlers, exited,
                           permission_vars>>

\* __aexit__ up to its first suspension. pop(op_id) raises KeyError when the
\* entry is gone, before anything is recorded. Otherwise the metric is
\* appended, the tool statistics are updated and, for a failure whose message
\* is true, the handlers are called; the exit is over unless a coroutine
\* handler is awaited. __aexit__ returns False: the body's exception goes on
\* to the caller.
ExitScope ==
    \E slot \in 1..MaxOpen, outcome \in OutcomeInputs :
        LET scope == scopes[slot]
        IN  /\ scope.state = "open"
            /\ IF scope.op_id \notin DOMAIN start_times
               THEN /\ exited' = Finished([scope EXCEPT !.outcome = outcome],
                                          KeyError, error_handlers)
                    /\ scopes' = [scopes EXCEPT ![slot] = NoScope]
                    /\ UNCHANGED <<start_times, metrics, tool_stats>>
               ELSE LET duration == clock - start_times[scope.op_id]
                        success == ~outcome.raised
                        error_msg == IF outcome.raised
                                     THEN Some(outcome.message) ELSE None
                        metric == PerformanceMetric(scope.op_name, duration,
                                      clock, success, error_msg, scope.meta)
                        handled ==
                            IF ~success /\ Truthy(error_msg)
                            THEN handle_error(error_handlers, 1, scope.op_name,
                                              error_msg[1], scope.meta, <<>>,
                                              FALSE)
                            ELSE [calls |-> <<>>, next |-> 0,
                                  escaped |-> None]
                        after == [scope EXCEPT !.outcome = outcome,
                                               !.metric = Some(metric),
                                               !.calls = handled.calls,
                                               !.next = handled.next,
                                               !.state = "handling"]
                    IN  /\ start_times' =
                              [id \in DOMAIN start_times \ {scope.op_id} |->
                                  start_times[id]]
                        /\ metrics' = deque_append(metrics, metric)
                        /\ tool_stats' = tool_stats_after(tool_stats,
                              scope.meta, duration, success, error_msg, clock)
                        /\ IF handled.next = 0
                           THEN /\ exited' = Finished(after,
                                      Propagated(outcome, handled.escaped),
                                      error_handlers)
                                /\ scopes' = [scopes EXCEPT ![slot] = NoScope]
                           ELSE /\ scopes' = [scopes EXCEPT ![slot] = after]
                                /\ UNCHANGED exited
            /\ UNCHANGED <<clock, error_handlers, started, permission_vars>>

\* the coroutine handler that __aexit__ awaits returns or raises (which is
\* caught), and the loop of _handle_error goes on over the handler list as
\* it is now
ResumeHandlers ==
    \E slot \in 1..MaxOpen :
        LET scope == scopes[slot]
            handled == handle_error(error_handlers, scope.next,
                                    scope.op_name, scope.outcome.message,
                                    scope.meta, scope.calls, TRUE)
            after == [scope EXCEPT !.calls = handled.calls,
                                   !.next = handled.next]
        IN  /\ scope.state = "handling"
            /\ IF handled.next = 0
               THEN /\ exited' = Finished(after,
                                Propagated(scope.outcome, handled.escaped),
                                error_handlers)
                    /\ scopes' = [scopes EXCEPT ![slot] = NoScope]
               ELSE /\ scopes' = [scopes EXCEPT ![slot] = after]
                    /\ UNCHANGED exited
            /\ UNCHANGED <<clock, start_times, metrics, tool_stats,
                           error_handlers, started, permission_vars>>

\* add_error_handler(handler)
AddErrorHandler ==
    \E handler \in HandlerInputs :
        /\ Len(error_handlers) < MaxHandlers
        /\ error_handlers' = Append(error_handlers, handler)
        /\ UNCHANGED <<clock, start_times, metrics, tool_stats, scopes, exited,
                       started, permission_vars>>

\* the PerformanceMonitor's calls; the other objects are not touched
TrackerNext ==
    \/ Tick /\ UNCHANGED <<recovery_vars, tool_vars, sample_vars>>
    \/ TrackOperation /\ UNCHANGED <<recovery_vars, tool_vars, sample_vars>>
    \/ ExitScope /\ UNCHANGED <<recovery_vars, tool_vars, sample_vars>>
    \/ ResumeHandlers /\ UNCHANGED <<recovery_vars, tool_vars, sample_vars>>
    \/ AddErrorHandler /\ UNCHANGED <<recovery_vars, tool_vars, sample_vars>>

TrackerSpec == Init /\ [][TrackerNext]_vars

(***************************************************************************)
(* The ErrorRecovery's calls. handle_error is called by one caller, which   *)
(* awaits it before it calls again; while a strategy sleeps, strategies    *)
(* are registered and counters reset by others.                            *)
(***************************************************************************)
\* the calls of handle_error: a rate-limit error whose message begins with
\* a capital letter (the one of the tests) and one in lower case, for the
\* operation "test", and a ConnectionError with a context that names no
\* operation
CallInputs ==
    { << Error(<<"E","x","c","e","p","t","i","o","n">>,
               <<"R","a","t","e"," ","l","i","m","i","t"," ",
                 "e","x","c","e","e","d","e","d">>),
         [operation |-> <<"t","e","s","t">>] >>,
      << Error(<<"E","x","c","e","p","t","i","o","n">>,
               <<"r","a","t","e"," ","l","i","m","i","t"," ",
                 "e","x","c","e","e","d","e","d">>),
         [operation |-> <<"t","e","s","t">>] >>,
      << Error(<<"C","o","n","n","e","c","t","i","o","n",
                 "E","r","r","o","r">>,
               <<"C","o","n","n","e","c","t","i","o","n"," ",
                 "e","r","r","o","r">>),
         EmptyMeta >> }

\* the registrations: the default ones of monitoring.py under "rate" and
\* "Connection", the mock of the tests under "rate", a strategy that raises
\* under "Connection", and connection_error_recovery under "rate", where it
\* is offered errors it returns None for
RegistrationInputs ==
    { <<<<"r","a","t","e">>, rate_limit_recovery>>,
      <<<<"r","a","t","e">>, mock_recovery>>,
      <<<<"r","a","t","e">>, connection_error_recovery>>,
      <<<<"C","o","n","n","e","c","t","i","o","n">>,
        connection_error_recovery>>,
      <<<<"C","o","n","n","e","c","t","i","o","n">>, failing_recovery>> }

\* the keys whose counter is reset
KeyInputs == { <<"E","x","c","e","p","t","i","o","n",":","t","e","s","t">> }

\* the bounds of the recovery: strategies registered in all, and the value
\* up to which a counter is followed
MaxStrategies == 2
MaxCount == 4

\* the number of strategies registered
RECURSIVE Registered(_)
Registered(strategies) ==
    IF strategies = <<>> THEN 0
    ELSE Len(strategies[1].strategies) + Registered(Tail(strategies))

\* what the caller of handle_error gets, with the counter of the key as
\* get_error_summary gives it at that moment, the strategies registered
\* when the call began, whether the task was cancelled during the call, and
\* whether the call overlapped another call of handle_error
CallReturned(key, error, looped, cancelled, overlapped, counts, strategies) ==
    [op |-> "handle_error", key |-> key, error |-> error,
     result |-> looped.result, raised |-> looped.state = "raised",
     cancelled |-> cancelled, overlapped |-> overlapped,
     invoked |-> looped.invoked, count |-> counts[key],
     registered |-> strategies]

\* the summary of the returns once call has returned as well: the key of
\* call, how many calls of handle_error for that key have returned None in a
\* row, call being the last of them, and whether call recovered
Summary(before, call) ==
    IF call = NoCall \/ call.op = "register_recovery" THEN before
    ELSE IF call.op = "handle_error" /\ ~call.raised /\ call.result = None
    THEN [key |-> call.key,
          failures |-> IF before.key = call.key
                       THEN before.failures + 1 ELSE 1,
          recovered |-> FALSE]
    ELSE [key |-> call.key, failures |-> 0,
          recovered |-> call.op = "handle_error" /\ call.result # None]

RegisterRecovery ==
    \E in \in RegistrationInputs :
        /\ Registered(recovery_strategies) < MaxStrategies
        /\ recovery_strategies' =
              register_recovery(recovery_strategies, in[1], in[2])
        /\ returned' = [op |-> "register_recovery", pattern |-> in[1]]
        /\ earlier' = Summary(earlier, returned)
        /\ UNCHANGED <<error_counts, pending>>

\* handle_error(error, context) up to its return or its first suspension.
\* handle_error is a coroutine: while one call is suspended in the sleep of a
\* strategy, other tasks call it, and their calls run up to their return; the
\* model holds one suspended call at a time.
HandleError ==
    \E in \in CallInputs :
        LET error == in[1]
            context == in[2]
            key == error_key(error, context)
            handled == ErrorRecovery_handle_error(error_counts,
                           recovery_strategies, error, context)
        IN  /\ pending = NoCall \/ handled.state # "awaiting"
            /\ key \in DOMAIN error_counts => error_counts[key] < MaxCount
            /\ error_counts' = handled.counts
            /\ IF handled.state = "awaiting"
               THEN /\ pending' = [state |-> "awaiting", key |-> key,
                                   error |-> error, p |-> handled.p,
                                   s |-> handled.s,
                                   invoked |-> handled.invoked,
                                   registered |-> recovery_strategies,
                                   overlapped |-> FALSE]
                    /\ UNCHANGED <<returned, earlier>>
               ELSE /\ returned' = CallReturned(key, error, handled, FALSE,
                                                pending # NoCall,
                                                handled.counts,
                                                recovery_strategies)
                    /\ earlier' = Summary(earlier, returned)
                    /\ pending' = IF pending = NoCall THEN pending
                                  ELSE [pending EXCEPT !.overlapped = TRUE]
            /\ UNCHANGED recovery_strategies

\* the sleep of the strategy awaited is over: the strategy returns and
\* handle_error goes on
ResumeRecovery ==
    LET looped == resume(recovery_strategies, pending.p, pending.s,
                         pending.error, pending.invoked)
        after == counted(error_counts, pending.key, looped)
    IN  /\ pending # NoCall
        /\ error_counts' = after
        /\ IF looped.state = "awaiting"
           THEN /\ pending' = [pending EXCEPT !.p = looped.p, !.s = looped.s,
                                              !.invoked = looped.invoked]
                /\ UNCHANGED <<returned, earlier>>
           ELSE /\ pending' = NoCall
                /\ returned' = CallReturned(pending.key, pending.error,
                                            looped, FALSE,
                                            pending.overlapped, after,
                                            pending.registered)
                /\ earlier' = Summary(earlier, returned)
        /\ UNCHANGED recovery_strategies

\* the task that awaits handle_error is cancelled while the strategy sleeps:
\* CancelledError is no Exception, it leaves the strategy and handle_error
CancelRecovery ==
    LET looped == cancel(recovery_strategies, pending.p, pending.s,
                         pending.error, pending.invoked)
        after == counted(error_counts, pending.key, looped)
    IN  /\ pending # NoCall
        /\ error_counts' = after
        /\ IF looped.state = "awaiting"
           THEN /\ pending' = [pending EXCEPT !.p = looped.p, !.s = looped.s,
                                              !.invoked = looped.invoked]
                /\ UNCHANGED <<returned, earlier>>
           ELSE /\ pending' = NoCall
                /\ returned' = CallReturned(pending.key, pending.error,
                                            looped, TRUE,
                                            pending.overlapped, after,
                                            pending.registered)
                /\ earlier' = Summary(earlier, returned)
        /\ UNCHANGED recovery_strategies

\* reset_error_count(error_key)
ResetErrorCount ==
    \E key \in KeyInputs :
        /\ error_counts' = reset_error_count(error_counts, key)
        /\ returned' = [op |-> "reset_error_count", key |-> key]
        /\ earlier' = Summary(earlier, returned)
        /\ UNCHANGED <<recovery_strategies, pending>>

\* the ErrorRecovery's calls; the other objects are not touched
RecoveryNext ==
    \/ RegisterRecovery
          /\ UNCHANGED <<permission_vars, monitor_vars, tool_vars,
                         sample_vars>>
    \/ HandleError
          /\ UNCHANGED <<permission_vars, monitor_vars, tool_vars,
                         sample_vars>>
    \/ ResumeRecovery
          /\ UNCHANGED <<permission_vars, monitor_vars, tool_vars,
                         sample_vars>>
    \/ CancelRecovery
          /\ UNCHANGED <<permission_vars, monitor_vars, tool_vars,
                         sample_vars>>
    \/ ResetErrorCount
          /\ UNCHANGED <<permission_vars, monitor_vars, tool_vars,
                         sample_vars>>

RecoverySpec == Init /\ [][RecoveryNext]_vars

(***************************************************************************)
(* The ToolManager's calls                                                  *)
(***************************************************************************)
\* the manager as its methods see it
Manager == [permissions |-> tool_permissions, defaults |-> default_permissions]

\* the permissions set: a tool that is allowed by default, one that is not,
\* and one that has no default dict; without and with restrictions
SetInputs ==
    {"Read", "Bash", "LS"} \X BOOLEAN \X {None, Some(<<"git*">>)}

\* the scenarios applied: the presets, and a name that is none
ScenarioInputs ==
    {"readonly", "content_generation", "development", "production"}

\* ToolManager(): another manager takes the place of the one followed; the
\* module's default dicts are as the calls so far have left them
NewToolManager ==
    /\ tool_permissions' = ToolManager
    /\ tool_last' = [op |-> "__init__"]
    /\ UNCHANGED default_permissions

SetToolPermission ==
    \E in \in SetInputs :
        LET after == set_tool_permission(Manager, in[1], in[2], in[3])
        IN  /\ tool_permissions' = after.permissions
            /\ default_permissions' = after.defaults
            /\ tool_last' = [op |-> "set_tool_permission", tool |-> in[1],
                             allowed |-> in[2]]

\* apply_scenario(scenario): what it raised, and the manager before the call
ApplyScenario ==
    \E scenario \in ScenarioInputs :
        LET outcome == apply_scenario(Manager, scenario)
        IN  /\ tool_permissions' = outcome.manager.permissions
            /\ default_permissions' = outcome.manager.defaults
            /\ tool_last' = [op |-> "apply_scenario", scenario |-> scenario,
                             raised |-> outcome.raised, before |-> Manager]

\* the ToolManager's calls; the other objects are not touched
ToolNext ==
    \/ NewToolManager
          /\ UNCHANGED <<permission_vars, monitor_vars, recovery_vars,
                         sample_vars>>
    \/ SetToolPermission
          /\ UNCHANGED <<permission_vars, monitor_vars, recovery_vars,
                         sample_vars>>
    \/ ApplyScenario
          /\ UNCHANGED <<permission_vars, monitor_vars, recovery_vars,
                         sample_vars>>

ToolSpec == Init /\ [][ToolNext]_vars

(***************************************************************************)
(* The statistics of a PerformanceMonitor whose history is long: the tool  *)
(* statistics under _update_tool_stats alone, and get_statistics over a    *)
(* history of many metrics                                                 *)
(***************************************************************************)
\* the error texts of a tool's failures
ErrorTexts ==
    <<"e1", "e2", "e3", "e4", "e5", "e6", "e7", "e8", "e9", "e10", "e11",
      "e12", "e13", "e14">>

\* how an operation of the tool ends: it succeeds, it fails with a text not
\* seen before, it fails with the text of the first failure again
UpdateInputs == {"success", "fresh", "repeat"}

\* the bounds of the statistics: updates of the tool's statistics, and
\* metrics in the history
MaxUpdates == 11
MaxSample == 11

\* _update_tool_stats(ClaudeCodeTool.READ, duration, success, error), as
\* __aexit__ and the tests call it
UpdateToolStats ==
    \E in \in UpdateInputs :
        LET text == IF in = "repeat" THEN failures[1]
                    ELSE ErrorTexts[Len(failures) + 1]
            error == IF in = "success" THEN None ELSE Some(text)
        IN  /\ Counted(tool_stats, "Read") < MaxUpdates
            /\ in = "repeat" => failures # <<>>
            /\ tool_stats' = update_tool_stats(tool_stats, "Read", 0,
                                               in = "success", error, clock)
            /\ failures' = IF in = "success" THEN failures
                           ELSE Append(failures, text)
            /\ UNCHANGED <<clock, start_times, metrics, error_handlers,
                           scopes, exited, started, sample>>

ToolStatsNext ==
    UpdateToolStats
        /\ UNCHANGED <<permission_vars, recovery_vars, tool_vars>>

ToolStatsSpec == Init /\ [][ToolStatsNext]_vars

\* metrics.append(metric) on a history that is not full: an operation
\* "query" has ended, with or without an error
RecordSample ==
    \E success \in BOOLEAN :
        /\ Len(sample) < MaxSample
        /\ sample' = Append(sample,
              PerformanceMetric("query", 0, Len(sample) + 1, success,
                                IF success THEN None
                                ELSE Some(ErrorTexts[Len(sample) + 1]),
                                EmptyMeta))
        /\ UNCHANGED failures

HistoryNext ==
    RecordSample
        /\ UNCHANGED <<permission_vars, monitor_vars, recovery_vars,
                       tool_vars>>

HistorySpec == Init /\ [][HistoryNext]_vars

(***************************************************************************)
(* Properties of check_permission                                          *)
(***************************************************************************)
\* the last call was check_permission(last.tool, last.command)
Checked == last.op = "check_permission"

\* the configuration of a freshly constructed PermissionManager()
DefaultConfig == init_default_permissions(PermissionConfig)

\* the configuration right after apply_preset(preset)
PresetConfig(preset) == from_dict(presets[preset])

\* command.startswith(prefix)
BeginsWith(command, prefix) ==
    /\ Len(command) >= Len(prefix)
    /\ SubSeq(command, 1, Len(prefix)) = prefix

\* command.endswith(suffix)
EndsWith(command, suffix) ==
    /\ Len(command) >= Len(suffix)
    /\ SubSeq(command, Len(command) - Len(suffix) + 1, Len(command)) = suffix

\* a command of the form "curl <any text> | sh"
CurlPipedToShell(command) ==
    /\ Len(command) >= 10
    /\ BeginsWith(command, <<"c","u","r","l"," ">>)
    /\ EndsWith(command, <<" ","|"," ","s","h">>)

GitStatus == <<"g","i","t"," ","s","t","a","t","u","s">>
LsLa == <<"l","s"," ","-","l","a">>
RmRfRoot == <<"r","m"," ","-","r","f"," ","/">>

BashRmRule == PlainRule(<<"B","a","s","h","(","r","m","*",")">>)
BashGitRule == PlainRule(<<"B","a","s","h","(","g","i","t","*",")">>)
BashCurlPattern ==
    <<"B","a","s","h","(","c","u","r","l"," ","*"," ","|"," ","s","h",")">>

\* a text is what a wildcard pattern becomes when each "*" is replaced by
\* some sequence of characters, the empty one included, and every other
\* character stands for itself
RECURSIVE Glob(_, _)
Glob(pattern, text) ==
    IF pattern = <<>> THEN text = <<>>
    ELSE IF Head(pattern) = "*"
         THEN \E k \in 0..Len(text) :
                  Glob(Tail(pattern), SubSeq(text, k + 1, Len(text)))
         ELSE /\ text # <<>>
              /\ Head(text) = Head(pattern)
              /\ Glob(Tail(pattern), Tail(text))

\* the rules of a list that are wildcard rules
WildcardRules(rules) ==
    { rules[i] : i \in { j \in 1..Len(rules) : ~rules[j].is_regex } }

\* C26: a wildcard (non-regex) rule matches a tool and command exactly when
\* the whole text "Tool(command)" (the tool name alone for an empty command)
\* can be obtained from the pattern by replacing each "*" with an arbitrary,
\* possibly empty sequence of characters, all other characters of the
\* pattern ("(", ")", "|", "." and the space among them) being literal.
C26_WildcardIsGlob ==
    Checked =>
        \A rule \in WildcardRules(config.allow_rules)
                       \cup WildcardRules(config.deny_rules) :
            matches(rule, last.tool, last.command)
                <=> Glob(rule.pattern, full_command(last.tool, last.command))

\* the membership of every tool but one in the allowed and the denied set is
\* the same in the two configurations
OthersUnchanged(before, after, tool) ==
    \A other \in ClaudeCodeTool \ {tool} :
        /\ other \in after.allowed_tools <=> other \in before.allowed_tools
        /\ other \in after.denied_tools <=> other \in before.denied_tools

\* C27: in every state reached from the default manager no tool is in both
\* the allowed and the denied set; after add_allowed_tool(t), t is allowed
\* and not denied, after add_denied_tool(t), t is denied and not allowed, and
\* the membership of every other tool is unchanged.
C27_AllowedDeniedDisjoint ==
    /\ [](config.allowed_tools \cap config.denied_tools = {})
    /\ [][/\ last'.op = "add_allowed_tool" =>
                /\ last'.tool \in config'.allowed_tools
                /\ last'.tool \notin config'.denied_tools
                /\ OthersUnchanged(config, config', last'.tool)
          /\ last'.op = "add_denied_tool" =>
                /\ last'.tool \in config'.denied_tools
                /\ last'.tool \notin config'.allowed_tools
                /\ OthersUnchanged(config, config', last'.tool)]_vars

\* add_allowed_tool has moved Bash, which the defaults deny, to the allowed
\* set, other tools being allowed and denied
C27_Witness ==
    /\ last.op = "add_allowed_tool"
    /\ last.tool = "Bash"
    /\ "Bash" \in config.allowed_tools
    /\ config.allowed_tools # {"Bash"}
    /\ config.denied_tools # {}

\* no two rules of the list have the same pattern
DistinctPatterns(rules) ==
    \A i, j \in 1..Len(rules) : rules[i].pattern = rules[j].pattern => i = j

\* C28: rules are deduplicated by their exact pattern string: after any
\* sequence of add_allow_rule and add_deny_rule calls on a default manager,
\* with any is_regex flags, neither rule list holds two rules with the same
\* pattern.
C28_RulesDistinctByPattern ==
    /\ DistinctPatterns(config.allow_rules)
    /\ DistinctPatterns(config.deny_rules)

\* C1: a check_permission call for a tool that is in denied_tools is denied
\* with the tool-explicitly-denied reason, whatever the command, the allowed
\* set and the rules are.
C1_DeniedToolAlwaysDenied ==
    (Checked /\ last.tool \in config.denied_tools)
        => (~last.allowed /\ last.reason = ToolDenied(last.tool))

\* C1 witness: a denied tool was checked with a command that a deny rule
\* matches too, and the reason cites the tool denial.
C1_Witness ==
    /\ Checked
    /\ last.tool \in config.denied_tools
    /\ last.command # <<>>
    /\ MatchingRules(config.deny_rules, last.tool, last.command) # {}
    /\ last.reason = ToolDenied(last.tool)

\* C2: a check_permission call whose canonical string is matched by some
\* deny rule is denied.
C2_DenyRuleMatchDenies ==
    (Checked /\ MatchingRules(config.deny_rules, last.tool, last.command) # {})
        => ~last.allowed

\* C2 witness: the tool is allowed and not denied, a deny rule and an allow
\* rule both match the command, and the call was denied citing the deny rule.
C2_Witness ==
    /\ Checked
    /\ last.tool \in config.allowed_tools
    /\ last.tool \notin config.denied_tools
    /\ last.command # <<>>
    /\ MatchingRules(config.deny_rules, last.tool, last.command) # {}
    /\ MatchingRules(config.allow_rules, last.tool, last.command) # {}
    /\ ~last.allowed
    /\ last.reason.kind = "MatchedDenyRule"

\* C3: with Bash allowed, not denied and the wildcard deny rule Bash(rm*)
\* present, check_permission(Bash, c) is denied citing Bash(rm*) for every
\* command c that begins with "rm".
C3_RmDeniedByDefaultRule ==
    ( /\ Checked
      /\ last.tool = "Bash"
      /\ "Bash" \in config.allowed_tools
      /\ "Bash" \notin config.denied_tools
      /\ InRules(BashRmRule, config.deny_rules)
      /\ BeginsWith(last.command, <<"r","m">>) )
        => (~last.allowed /\ last.reason = MatchedDenyRule(BashRmRule.pattern))

\* C4: a check_permission call for a tool that is not in allowed_tools is
\* denied.
C4_ToolOutsideAllowListDenied ==
    (Checked /\ last.tool \notin config.allowed_tools) => ~last.allowed

\* C4 witness: the tool is neither allowed nor denied, an allow rule matches
\* the command, no deny rule does, and the call was denied.
C4_Witness ==
    /\ Checked
    /\ last.tool \notin config.allowed_tools
    /\ last.tool \notin config.denied_tools
    /\ MatchingRules(config.deny_rules, last.tool, last.command) = {}
    /\ MatchingRules(config.allow_rules, last.tool, last.command) # {}
    /\ last.reason = ToolNotAllowed(last.tool)

\* C5: with the tool allowed, not denied, no deny rule matching, a non-empty
\* command and a non-empty allow-rule list, the call is allowed exactly when
\* some allow rule matches; and with Bash allowed and the allow rule
\* Bash(git*), "git status" is allowed and "ls -la" is denied for matching no
\* allow rule.
C5_AllowRulesDecide ==
    ( /\ Checked
      /\ last.tool \in config.allowed_tools
      /\ last.tool \notin config.denied_tools
      /\ MatchingRules(config.deny_rules, last.tool, last.command) = {}
      /\ last.command # <<>>
      /\ config.allow_rules # <<>> )
        => /\ last.allowed
                <=> MatchingRules(config.allow_rules, last.tool, last.command) # {}
           /\ (last.tool = "Bash" /\ InRules(BashGitRule, config.allow_rules))
                => /\ last.command = GitStatus => last.allowed
                   /\ last.command = LsLa
                        => (~last.allowed /\ last.reason = NoAllowRuleMatched)

\* C6: on a default manager after add_deny_rule("Bash(curl * | sh)") and
\* add_allowed_tool(Bash), check_permission(Bash, c) is denied for every
\* command c of the form "curl <any text> | sh".
C6_CurlPipeShellDenied ==
    ( /\ Checked
      /\ config = add_allowed_tool(add_deny_rule(DefaultConfig, BashCurlPattern, FALSE),
                                   "Bash")
      /\ last.tool = "Bash"
      /\ CurlPipedToShell(last.command) )
        => ~last.allowed

\* C7: on a freshly constructed manager, check_permission with an empty
\* command allows each safe tool and denies each dangerous tool.
C7_DefaultPermissions ==
    (Checked /\ config = DefaultConfig /\ last.command = <<>>)
        => /\ last.tool \in {"Read", "Grep", "Glob", "LS", "TodoWrite", "Task",
                             "WebSearch"} => last.allowed
           /\ last.tool \in {"Bash", "Write", "Edit", "MultiEdit"} => ~last.allowed

\* C7 witness: a safe tool was checked on the default configuration and
\* allowed.
C7_Witness ==
    /\ Checked
    /\ config = DefaultConfig
    /\ last.command = <<>>
    /\ last.tool = "Read"
    /\ last.allowed

\* C8: after apply_preset("readonly"), check_permission with an empty command
\* allows Read, Grep, Glob, LS and WebSearch and denies Write, Edit, Bash and
\* MultiEdit.
C8_ReadonlyPreset ==
    (Checked /\ config = PresetConfig("readonly") /\ last.command = <<>>)
        => /\ last.tool \in {"Read", "Grep", "Glob", "LS", "WebSearch"}
                => last.allowed
           /\ last.tool \in {"Write", "Edit", "Bash", "MultiEdit"} => ~last.allowed

\* the command prefixes the development preset's allow rules name
AllowListedPrefix(command) ==
    \E prefix \in { <<"n","p","m">>, <<"y","a","r","n">>, <<"g","i","t">>,
                    <<"p","y","t","h","o","n">>, <<"n","o","d","e">> } :
        BeginsWith(command, prefix)

\* C9: after apply_preset("development"), check_permission(Bash, c) is allowed
\* exactly when c begins with npm, yarn, git, python or node and no deny rule
\* matches it.
C9_DevelopmentShellAllowList ==
    ( /\ Checked
      /\ config = PresetConfig("development")
      /\ last.tool = "Bash"
      /\ last.command # <<>> )
        => (last.allowed
              <=> /\ AllowListedPrefix(last.command)
                  /\ MatchingRules(config.deny_rules, "Bash", last.command) = {})

\* a command that begins with "rm -rf", "sudo" or "chmod 777", or has the form
\* "curl <any text> | sh"
Destructive(command) ==
    \/ BeginsWith(command, <<"r","m"," ","-","r","f">>)
    \/ BeginsWith(command, <<"s","u","d","o">>)
    \/ BeginsWith(command, <<"c","h","m","o","d"," ","7","7","7">>)
    \/ CurlPipedToShell(command)

\* C10: after apply_preset("development"), check_permission(Bash, c) is denied
\* for every destructive command c.
C10_DevelopmentDeniesDestructive ==
    ( /\ Checked
      /\ config = PresetConfig("development")
      /\ last.tool = "Bash"
      /\ Destructive(last.command) )
        => ~last.allowed

\* C10 witness: "rm -rf /" was checked for Bash on the development preset and
\* denied.
C10_Witness ==
    /\ Checked
    /\ config = PresetConfig("development")
    /\ last.tool = "Bash"
    /\ last.command = RmRfRoot
    /\ ~last.allowed

(***************************************************************************)
(* Properties of the presets                                               *)
(***************************************************************************)
\* the tools of the development preset's allowed_tools other than the shell
DevelopmentNonShellTools ==
    { "Read", "Write", "Edit", "MultiEdit", "Grep", "Glob", "LS", "TodoWrite",
      "Task", "WebSearch", "WebFetch" }

\* C11: after apply_preset("development"), check_permission allows every
\* non-shell tool of the preset's allowed set, for the empty command and for
\* every non-empty command; the Bash allow rules do not restrict other tools.
C11_DevelopmentNonShellAllowed ==
    ( /\ Checked
      /\ config = PresetConfig("development")
      /\ last.tool \in DevelopmentNonShellTools )
        => last.allowed

\* C12: after apply_preset("content_generation"), check_permission denies
\* Bash, Write, Edit and MultiEdit for every command, empty or not, and allows
\* Task, WebSearch and TodoWrite with an empty command.
C12_ContentGenerationPreset ==
    (Checked /\ config = PresetConfig("content_generation"))
        => /\ last.tool \in {"Bash", "Write", "Edit", "MultiEdit"}
                => ~last.allowed
           /\ (last.tool \in {"Task", "WebSearch", "TodoWrite"}
                 /\ last.command = <<>>) => last.allowed

\* C12 witness: on the content_generation preset Task was checked with an
\* empty command and allowed.
C12_Witness ==
    /\ Checked
    /\ config = PresetConfig("content_generation")
    /\ last.tool = "Task"
    /\ last.command = <<>>
    /\ last.allowed

\* the last call was apply_preset(last.preset)
PresetApplied == last.op = "apply_preset"

\* the list the preset's dict gives under key, or the empty list
PresetList(preset, key) ==
    IF key \in DOMAIN presets[preset] THEN presets[preset][key] ELSE <<>>

\* cfg holds exactly what the preset's dict names: its tool sets, and its
\* patterns as wildcard rules in the dict's order
IsPresetBundle(cfg, preset) ==
    /\ cfg.allowed_tools = presets[preset].allowed_tools
    /\ cfg.denied_tools = presets[preset].denied_tools
    /\ RulePatterns(cfg.allow_rules) = PresetList(preset, "allow_rules")
    /\ RulePatterns(cfg.deny_rules) = PresetList(preset, "deny_rules")
    /\ \A i \in 1..Len(cfg.allow_rules) : ~cfg.allow_rules[i].is_regex
    /\ \A i \in 1..Len(cfg.deny_rules) : ~cfg.deny_rules[i].is_regex

\* C13: for every known preset and every starting policy, an apply_preset
\* call that repeats the previous successful apply_preset call leaves the
\* policy (both tool sets and both rule lists) as the first call made it.
C13_ApplyPresetIdempotent ==
    [][ ( /\ PresetApplied
          /\ ~last.raised
          /\ last'.op = "apply_preset"
          /\ last'.preset = last.preset )
            => config' = config ]_vars

\* C13 witness: apply_preset("development") has returned and the policy is the
\* development bundle, the state both the first and the repeated call end in.
C13_Witness ==
    /\ PresetApplied
    /\ last.preset = "development"
    /\ ~last.raised
    /\ IsPresetBundle(config, "development")

\* C14: after a successful apply_preset(p) the policy is exactly the bundle of
\* p, whatever tools and rules the policy held before the call.
C14_ApplyPresetReplaces ==
    (PresetApplied /\ ~last.raised) => IsPresetBundle(config, last.preset)

\* C14 witness: apply_preset("readonly") has returned; the default tools and
\* rules that the preset does not name are gone.
C14_Witness ==
    /\ PresetApplied
    /\ last.preset = "readonly"
    /\ ~last.raised
    /\ "TodoWrite" \notin config.allowed_tools
    /\ config.allow_rules = <<>>
    /\ Len(config.deny_rules) = 1

\* C15: apply_preset with a name that is not a known preset raises and leaves
\* both tool sets and both rule lists unchanged.
C15_UnknownPresetRejected ==
    [][ (last'.op = "apply_preset" /\ last'.preset \notin DOMAIN presets)
            => (last'.raised /\ config' = config) ]_vars

\* C15 witness: apply_preset("staging") raised on a policy that is not the
\* freshly constructed one.
C15_Witness ==
    /\ PresetApplied
    /\ last.preset = "staging"
    /\ last.raised
    /\ config # DefaultConfig
    /\ config # PermissionConfig

(***************************************************************************)
(* Properties of export_config and import_config                           *)
(***************************************************************************)
\* the last call was import_config(last.document)
Imported == last.op = "import_config"

\* C16: for every reachable policy, import_config(export_config()) gives a
\* policy with the same allowed-tool set, the same denied-tool set and the
\* same allow-rule and deny-rule pattern lists in the same order.
C16_ExportImportRoundTrip ==
    [][ (last'.op = "import_config" /\ last'.document = export_config(config))
            => /\ ~last'.raised
               /\ config'.allowed_tools = config.allowed_tools
               /\ config'.denied_tools = config.denied_tools
               /\ RulePatterns(config'.allow_rules)
                    = RulePatterns(config.allow_rules)
               /\ RulePatterns(config'.deny_rules)
                    = RulePatterns(config.deny_rules) ]_vars

\* C16 witness: the exported text of a policy was imported whose allow rules
\* and deny rules both hold the pattern Bash\(rm, added as a regular
\* expression, and which has Bash among its allowed tools.
C16_Witness ==
    /\ Imported
    /\ ~last.raised
    /\ last.document = export_config(config)
    /\ \E i \in 1..Len(config.allow_rules) :
            config.allow_rules[i].pattern \in PatternInputs
    /\ \E i \in 1..Len(config.deny_rules) :
            config.deny_rules[i].pattern \in PatternInputs
    /\ Len(config.deny_rules) >= 6
    /\ "Bash" \in config.allowed_tools

\* C17: import_config of a document that names a tool outside the catalog,
\* also after valid names, raises and leaves the policy unchanged.
C17_ImportUnknownToolRejected ==
    [][ (last'.op = "import_config" /\ UnknownNames(last'.document) # {})
            => (last'.raised /\ config' = config) ]_vars

\* C17 witness: the document whose allowed_tools are valid and whose
\* denied_tools name "bash" after "Bash" was rejected, and the policy still
\* has allowed tools other than the document's.
C17_Witness ==
    /\ Imported
    /\ last.raised
    /\ "denied_tools" \in DOMAIN last.document
    /\ UnknownNames(last.document) = {"bash"}
    /\ config.allowed_tools # {"Read"}

(***************************************************************************)
(* Properties of validate_command                                          *)
(***************************************************************************)
\* the last call was validate_command(last.text)
Validated == last.op = "validate_command"

\* the text is an identifier of word characters, "(", any inner text, and a
\* ")" that is the last character of the text
WellFormed(text) ==
    LET k == WordPrefix(text, 0)
    IN  /\ k >= 1
        /\ Len(text) >= k + 2
        /\ text[k + 1] = "("
        /\ text[Len(text)] = ")"

Identifier(text) == SubSeq(text, 1, WordPrefix(text, 0))
InnerText(text) == SubSeq(text, WordPrefix(text, 0) + 2, Len(text) - 1)

\* C18: validate_command never raises; it returns a denial for a text that is
\* not of the form Identifier(inner text) up to the end of the string or whose
\* identifier is not, letter case included, a catalog tool; and for a
\* well-formed text with a catalog tool it returns what
\* check_permission(tool, inner text) returns.
C18_ValidateCommand ==
    Validated =>
        /\ ~last.raised
        /\ IF ~WellFormed(last.text) \/ ToolsByValue(Identifier(last.text)) = {}
           THEN ~last.allowed
           ELSE LET tool == CHOOSE t \in ToolsByValue(Identifier(last.text)) : TRUE
                    res == check_permission(config, tool, InnerText(last.text))
                IN  /\ last.allowed = res.allowed
                    /\ last.reason = res.reason

(***************************************************************************)
(* Properties of the operation tracker                                     *)
(***************************************************************************)
\* a tracking scope has been exited: its __aexit__ has returned or raised
ScopeExited == exited.state = "exited"

\* the calls that invoke every handler of the list once, in list order, with
\* the operation name, the error text and the metadata of the exited scope
EveryHandlerOnce(handlers) ==
    [i \in 1..Len(handlers) |->
        HandlerCall(handlers[i], exited.op_name, exited.outcome.message,
                    exited.meta)]

\* C19: every exited tracking scope, whether its body returned or raised,
\* has appended exactly one PerformanceMetric whose success flag is true
\* exactly when the body raised no error, and get_statistics counts it: after
\* one successful operation total_operations is 1 and success_rate is 1.0,
\* after one failing operation total_operations is 1, success_rate is 0.0 and
\* one error is recorded.
C19_OneMetricPerScope ==
    ScopeExited =>
        /\ exited.metric # None
        /\ exited.metric[1].success = ~exited.outcome.raised
        /\ started = 1 =>
              LET stats == get_statistics(metrics)
              IN  /\ stats.total_operations = 1
                  /\ ~exited.outcome.raised =>
                        stats.success_rate.num = stats.success_rate.den
                  /\ exited.outcome.raised =>
                        /\ stats.success_rate.num = 0
                        /\ Len(stats.errors) = 1

\* C20: when a tracked operation fails, whatever its error text, an empty
\* message included, every registered error handler has been invoked exactly
\* once by the time the scope is exited, in registration order, with the
\* operation name, the error text and the metadata; when the operation
\* succeeds no handler is invoked.
C20_HandlersInvokedOnFailure ==
    ScopeExited =>
        exited.calls = IF exited.outcome.raised
                       THEN EveryHandlerOnce(exited.registered)
                       ELSE <<>>

\* C21: the tracker never changes the outcome of the operation it wraps:
\* whatever the caller sees when the scope is exited is what the body did, an
\* error of the body being propagated with its metric recorded and a
\* successful body staying successful, whatever handlers are registered and
\* whether they fail.
C21_OutcomeUnchanged ==
    ScopeExited =>
        /\ exited.propagated = exited.outcome
        /\ exited.outcome.raised => exited.metric # None

\* a handler of the exited scope's calls raised
HandlerFailed == \E i \in 1..Len(exited.calls) : exited.calls[i].handler.fails

\* C29: when an error handler itself fails, the failure is swallowed: every
\* registered handler, those after the failing one included, has been invoked
\* in registration order by the time the scope is exited, the metric of the
\* operation is recorded, and the caller sees the operation's own error.
C29_HandlerFailureSwallowed ==
    (ScopeExited /\ HandlerFailed) =>
        /\ exited.calls = EveryHandlerOnce(exited.registered)
        /\ exited.metric # None
        /\ exited.metric[1].error = Some(exited.outcome.message)
        /\ exited.propagated = exited.outcome

\* a scope is exited whose first handler failed and whose second handler was
\* invoked after it
C29_Witness ==
    /\ ScopeExited
    /\ Len(exited.calls) = 2
    /\ exited.calls[1].handler.fails
    /\ exited.calls[2].handler # exited.calls[1].handler

HandleErrorReturned ==
    /\ returned # NoCall
    /\ returned.op = "handle_error"
    /\ ~returned.raised

\* the strategies registered under a pattern when the last call returned
Under(pattern) ==
    IF \E p \in 1..Len(returned.registered) :
            returned.registered[p].pattern = pattern
    THEN returned.registered[
             CHOOSE p \in 1..Len(returned.registered) :
                 returned.registered[p].pattern = pattern].strategies
    ELSE <<>>

\* C22: with max_retries = 3, when handle_error has been called four times
\* in a row for one (error type, operation) key and none of the first three
\* calls recovered, the fourth call returns None without invoking any
\* strategy, and the counter of the key is then above max_retries. (Calls
\* in a row: the call was entered after the calls before it had returned.)
C22_FourthCallRefused ==
    (/\ HandleErrorReturned
     /\ ~returned.overlapped
     /\ earlier.key = returned.key
     /\ earlier.failures >= max_retries) =>
        /\ returned.result = None
        /\ returned.invoked = <<>>
        /\ returned.count > max_retries

\* the fourth call in a row for a key is refused although a strategy is
\* registered under "rate" that would recover from its error
C22_Witness ==
    /\ HandleErrorReturned
    /\ ~returned.overlapped
    /\ earlier.key = returned.key
    /\ earlier.failures = max_retries
    /\ returned.result = None
    /\ Contains(<<"r","a","t","e">>, returned.error.message)
    /\ Under(<<"r","a","t","e">>) # <<>>

\* C23: after a call of handle_error in which a strategy returned a result
\* that is not None, the counter of the key is zero; a key whose calls
\* alternate between failure and successful recovery never reaches the
\* ceiling: the call after a recovery finds the counter at zero.
C23_RecoveryResetsCounter ==
    HandleErrorReturned =>
        /\ returned.result # None => returned.count = 0
        /\ (~returned.overlapped /\ earlier.key = returned.key
                                  /\ earlier.recovered) =>
              returned.count = IF returned.result # None THEN 0 ELSE 1

\* a call recovers after a failure of the same key, and a call fails after
\* a recovery of the same key
C23_Witness ==
    /\ HandleErrorReturned
    /\ ~returned.overlapped
    /\ earlier.key = returned.key
    /\ \/ earlier.failures > 0 /\ returned.result # None
       \/ earlier.recovered /\ returned.result = None /\ returned.count = 1

\* C24: when a strategy that recovers from an error whose text holds "rate
\* limit" in any letter case is registered under the pattern "rate",
\* handle_error on an error with the text "Rate limit exceeded", the counter
\* being within the ceiling, invokes that strategy and returns its result,
\* which is not None.
C24_RateLimitRecovered ==
    (/\ HandleErrorReturned
     /\ returned.error.message =
           <<"R","a","t","e"," ","l","i","m","i","t"," ",
             "e","x","c","e","e","d","e","d">>
     /\ returned.count <= max_retries
     /\ Under(<<"r","a","t","e">>) # <<>>
     /\ strategy_outcome(Under(<<"r","a","t","e">>)[1],
                         returned.error).result # None) =>
        /\ returned.result # None
        /\ \E i \in 1..Len(returned.invoked) :
              returned.invoked[i] = Under(<<"r","a","t","e">>)[1].name

(***************************************************************************)
(* Properties of the tool manager                                          *)
(***************************************************************************)
\* the elements of a list
Elements(list) == { list[i] : i \in 1..Len(list) }

\* C25: after apply_scenario(s) for a known scenario s, the set that
\* get_allowed_tools returns is exactly the scenario's allowed_tools,
\* whatever permissions were set before; for content_generation it holds
\* TodoWrite and WebSearch and not Bash. An unknown scenario name raises and
\* no permission changes.
C25_ApplyScenario ==
    tool_last.op = "apply_scenario" =>
        IF tool_last.scenario \in DOMAIN SCENARIO_PRESETS
        THEN /\ ~tool_last.raised
             /\ Elements(get_allowed_tools(Manager)) =
                   Elements(SCENARIO_PRESETS[tool_last.scenario])
             /\ tool_last.scenario = "content_generation" =>
                   /\ is_tool_allowed(Manager, "TodoWrite")
                   /\ is_tool_allowed(Manager, "WebSearch")
                   /\ ~is_tool_allowed(Manager, "Bash")
        ELSE /\ tool_last.raised
             /\ Manager = tool_last.before

\* content_generation has been applied to a manager that allowed Bash and
\* LS and did not allow Read
C25_Witness ==
    /\ tool_last.op = "apply_scenario"
    /\ tool_last.scenario = "content_generation"
    /\ is_tool_allowed(tool_last.before, "Bash")
    /\ is_tool_allowed(tool_last.before, "LS")
    /\ ~is_tool_allowed(tool_last.before, "Read")

\* C31: any two tracking scopes open at the same time, two scopes of one
\* operation name opened at one clock reading included, have distinct
\* operation identifiers, and every open scope has its own start-time entry,
\* so that no exit fails or goes unrecorded because another scope overwrote
\* or removed the entry.
C31_DistinctOperationIds ==
    /\ \A s1, s2 \in 1..MaxOpen :
          (/\ s1 # s2
           /\ scopes[s1].state = "open"
           /\ scopes[s2].state = "open") =>
              scopes[s1].op_id # scopes[s2].op_id
    /\ \A slot \in 1..MaxOpen :
          scopes[slot].state = "open" =>
              scopes[slot].op_id \in DOMAIN start_times
    /\ ScopeExited => (exited.propagated # KeyError /\ exited.metric # None)

\* C32: every ToolUsageStats entry belongs to a tool of the catalog and has
\* count = success_count + error_count, the reported success_rate being
\* success_count / count; count is the number of completed operations whose
\* metadata named the tool: every exit of a scope that names the tool adds
\* one to it, and an exit of a scope that names no tool of the catalog leaves
\* the statistics as they are while its metric is recorded.
C32_ToolCounts ==
    /\ [](/\ DOMAIN tool_stats \subseteq ClaudeCodeTool
          /\ \A tool \in DOMAIN tool_stats :
                /\ tool_stats[tool].count =
                      tool_stats[tool].success_count
                          + tool_stats[tool].error_count
                /\ get_tool_statistics(tool_stats)[tool].success_rate =
                      Ratio(tool_stats[tool].success_count,
                            tool_stats[tool].count))
    /\ [][\A slot \in 1..MaxOpen :
            (scopes[slot].state = "open" /\ scopes'[slot].state # "open") =>
                IF /\ Truthy(MetaTool(scopes[slot].meta))
                   /\ scopes[slot].meta.tool \in ClaudeCodeTool
                THEN Counted(tool_stats', scopes[slot].meta.tool) =
                        Counted(tool_stats, scopes[slot].meta.tool) + 1
                ELSE /\ tool_stats' = tool_stats
                     /\ Len(metrics') > 0]_vars

\* list[-n:]
LastN(list, n) ==
    SubSeq(list, IF Len(list) > n THEN Len(list) - n + 1 ELSE 1, Len(list))

\* C33: a tool's recent-error list never holds more than 10 entries and is
\* FIFO: after any sequence of failures of the tool it holds the error texts
\* of the last (up to 10) failures in order of occurrence.
C33_ToolErrorsFifo ==
    "Read" \in DOMAIN tool_stats =>
        /\ Len(tool_stats["Read"].errors) <= MaxToolErrors
        /\ tool_stats["Read"].errors = LastN(failures, MaxToolErrors)

\* the failed operations of a history as get_statistics reports an error
FailedOperations(ms) ==
    [i \in 1..Len(WithError(ms)) |->
        [operation |-> WithError(ms)[i].operation,
         error |-> WithError(ms)[i].error[1],
         timestamp |-> WithError(ms)[i].timestamp]]

\* C34: the error list that get_statistics returns holds at most 10 entries,
\* and they are the most recent failed operations of the history: of more
\* than 10 failures the 10 latest are reported.
C34_LatestErrorsReported ==
    /\ Len(get_statistics(sample).errors) <= MaxRecentErrors
    /\ get_statistics(sample).errors =
          LastN(FailedOperations(sample), MaxRecentErrors)

\* the strategies that the registry of the last call offers to its error:
\* those of the items whose pattern is part of the type name or of the
\* text, items in registration order, strategies in list order
RECURSIVE Candidates(_, _)
Candidates(registered, error) ==
    IF registered = <<>> THEN <<>>
    ELSE (IF \/ Contains(registered[1].pattern, error.type)
             \/ Contains(registered[1].pattern, error.message)
          THEN registered[1].strategies ELSE <<>>)
         \o Candidates(Tail(registered), error)

\* the strategy returns a result for the error
Recovers(strategy, error) ==
    /\ ~strategy_outcome(strategy, error).raises
    /\ strategy_outcome(strategy, error).result # None

\* the candidates up to the first that returns a result, all when none does
UpToFirstResult(candidates, error) ==
    IF \E i \in 1..Len(candidates) : Recovers(candidates[i], error)
    THEN SubSeq(candidates, 1,
                CHOOSE i \in 1..Len(candidates) :
                    /\ Recovers(candidates[i], error)
                    /\ \A j \in 1..(i - 1) : ~Recovers(candidates[j], error))
    ELSE candidates

NamesOf(list) == [i \in 1..Len(list) |-> list[i].name]

\* the last call of handle_error returned and was not refused for its counter
WithinCeiling ==
    /\ HandleErrorReturned
    /\ ~returned.cancelled
    /\ ~(returned.result = None /\ returned.count > max_retries)

C36_RaisingStrategyCaught ==
    (/\ returned # NoCall
     /\ returned.op = "handle_error"
     /\ ~returned.cancelled
     /\ \E i \in 1..Len(returned.invoked) :
            returned.invoked[i] = failing_recovery.name) =>
        /\ ~returned.raised
        /\ returned.result = None => returned.count > 0
        /\ \A i \in 1..Len(returned.invoked) :
              returned.invoked[i] = failing_recovery.name =>
                  LET tried == UpToFirstResult(
                                   Candidates(returned.registered,
                                              returned.error),
                                   returned.error)
                  IN  /\ i <= Len(tried)
                      /\ SubSeq(returned.invoked, i + 1, Len(returned.invoked))
                           = NamesOf(SubSeq(tried, i + 1, Len(tried)))

\* a strategy raised, and the strategy registered after it was called and
\* recovered
C36_Witness ==
    /\ HandleErrorReturned
    /\ ~returned.cancelled
    /\ Len(returned.invoked) = 2
    /\ returned.invoked[1] = failing_recovery.name
    /\ returned.result # None
\* the counter that the table holds for a key, zero for a key never counted
CountOf(counts, key) == IF key \in DOMAIN counts THEN counts[key] ELSE 0

\* the step is a whole call of handle_error, from its entry to its return
CallStep ==
    /\ error_counts' # error_counts
    /\ pending = NoCall <=> pending' = NoCall
    /\ returned'.op = "handle_error"

\* C37: when no registered pattern matches the error, or every matching
\* strategy returns None or raises, handle_error returns None, the counter of
\* the key is exactly one more than before the call, and the counters of all
\* other keys are as they were.
C37_UnrecoveredLeavesCount ==
    [][ (/\ CallStep
         /\ \A i \in 1..Len(Candidates(recovery_strategies, returned'.error)) :
               ~Recovers(Candidates(recovery_strategies, returned'.error)[i],
                         returned'.error))
        => /\ returned'.result = None
           /\ ~returned'.raised
           /\ error_counts'[returned'.key]
                 = CountOf(error_counts, returned'.key) + 1
           /\ \A key \in (DOMAIN error_counts' \cup DOMAIN error_counts)
                           \ {returned'.key} :
                 /\ key \in DOMAIN error_counts
                 /\ key \in DOMAIN error_counts'
                 /\ error_counts'[key] = error_counts[key] ]_vars

\* a second call in a row within the ceiling whose two strategies gave no
\* result, with another key counted as well
C37_Witness ==
    /\ WithinCeiling
    /\ returned.result = None
    /\ Len(returned.invoked) = 2
    /\ returned.count = 2
    /\ \E key \in DOMAIN error_counts :
          key # returned.key /\ error_counts[key] > 0
\* the task that ran the last call of handle_error was cancelled while a
\* strategy slept
Cancelled ==
    /\ returned # NoCall
    /\ returned.op = "handle_error"
    /\ returned.cancelled

\* C38 as stated: when the sleep of a strategy is cancelled while
\* handle_error is suspended in it, handle_error returns None to its caller,
\* no later strategy reports a recovery, and the counter of the key keeps
\* its incremented value.
C38_CancelledYieldsNull ==
    Cancelled =>
        /\ ~returned.raised
        /\ returned.result = None
        /\ returned.invoked =
              NamesOf(UpToFirstResult(
                          Candidates(returned.registered, returned.error),
                          returned.error))

\* C38 amended: when the sleep of a strategy is cancelled while handle_error
\* is suspended in it, handle_error returns nothing: the cancellation is
\* raised to its caller. No recovery is reported, no strategy after the
\* sleeping one is invoked, and the cancellation leaves every counter as it
\* was, the counter of the key at its incremented value included.
C38_CancellationRaised ==
    /\ [](Cancelled =>
            /\ returned.raised
            /\ returned.result = None
            /\ returned.invoked =
                  NamesOf(UpToFirstResult(
                              Candidates(returned.registered, returned.error),
                              returned.error)))
    /\ [][ (pending # NoCall /\ pending' = NoCall /\ returned'.cancelled)
            => error_counts' = error_counts ]_vars

\* a call was cancelled in the sleep of its second strategy, and the counter
\* of its key is still what the call made it
C38_Witness ==
    /\ Cancelled
    /\ Len(returned.invoked) = 2
    /\ returned.count = 2
    /\ error_counts[returned.key] = 2
\* the step is reset_error_count(key)
ResetStep(key) ==
    /\ returned'.op = "reset_error_count"
    /\ returned'.key = key
    /\ error_counts'[key] = 0

\* C40: exhaustion lasts until an explicit reset: once the counter of a key
\* is above max_retries, every call of handle_error for the key returns None
\* without invoking a strategy and increases the counter, and no step other
\* than reset_error_count for the key lowers the counter; after the reset the
\* counter is zero, so that the next failure is offered to the strategies.
C40_ExhaustionPermanent ==
    [][ /\ (CallStep /\ CountOf(error_counts, returned'.key) > max_retries)
            => /\ returned'.result = None
               /\ returned'.invoked = <<>>
               /\ error_counts'[returned'.key]
                     = error_counts[returned'.key] + 1
        /\ \A key \in DOMAIN error_counts :
              (error_counts[key] > max_retries /\ ~ResetStep(key))
                  => error_counts'[key] >= error_counts[key] ]_vars
\* what check_permission gives for the tool and command of the last call
\* under a policy
Verdict(cfg) ==
    [allowed |-> check_permission(cfg, last.tool, last.command).allowed,
     reason |-> check_permission(cfg, last.tool, last.command).reason]

====
